---- MODULE Spec2Model ----
(***************************************************************************)
(* Verification model of the n8n version manager API (src/api):            *)
(*   - the incremental version cache of available_versions.py,             *)
(*   - the deployment phase engine of deployment_phase.py,                 *)
(*   - the deployment event stream, remove_version and deploy_version of   *)
(*     versions.py, with delete_namespace of k8s.py,                       *)
(*   - the handling of names by the handlers of snapshots.py,              *)
(*   - parse_k8s_memory and get_total_memory_requests of k8s.py,           *)
(*   - get_cluster_resources of cluster.py,                                *)
(*   - the Cache-Control middleware of main.py,                            *)
(*   - infer_phase_from_pods and the deployment listing of versions.py.    *)
(* Versions are numbered by release recency (1 is the oldest release, a    *)
(* larger number is a later release); times are whole hours.               *)
(***************************************************************************)
EXTENDS Integers, Sequences, FiniteSets, TLC

VARIABLES
    cache,        \* _cache: the in-memory cache {versions, last_check, newest}
    cache_file,   \* CACHE_FILE: the persisted cache, or absent
    now,          \* datetime.utcnow(), in hours
    feed,         \* the upstream release feed, newest release first
    published,    \* number of releases ever published upstream
    last,         \* what the last get_available_versions call did and returned
    pods,         \* the pod snapshot given to calculate_phase
    is_queue_mode,\* the mode flag given to calculate_phase
    result,       \* the value calculate_phase returned
    stage,        \* position in the simulated startup sequence
    ready_lags,   \* in the simulated startup, a Running pod is ready only a snapshot later
    phases,       \* the phases reported so far in the simulated startup
    pc,           \* event_generator: the yield or await it is suspended at
    watch,        \* event_generator: the pod watch w
    sent,         \* the events the stream has sent to the caller, in order
    clock,        \* the event loop's time, in seconds
    last_heartbeat, \* event_generator: last_heartbeat
    phase_info,   \* event_generator: the phase of phase_info
    namespace_pods, \* the pods of the streamed namespace
    pending,      \* pod-change notifications the watch holds for the generator
    changes,      \* pod changes the namespace has seen
    quiet,        \* seconds since a pod-change notification arrived or a heartbeat was sent
    ns,           \* the namespace a DELETE names: active, terminating or absent
    rm_pc,        \* remove_version: the call it is about to make
    polls,        \* delete_namespace: existence polls made
    invoked,      \* remove_version: the uninstall and delete it has invoked
    checked,      \* remove_version: what its existence check saw
    seen,         \* delete_namespace: what its last cluster call saw
    dn_ret,       \* delete_namespace: how it ended
    responses,    \* the responses of the DELETE requests so far
    request,      \* deploy_version: the validated DeployRequest
    tool,         \* deploy_version: how deploy-version.sh ran
    reply,        \* deploy_version: the response
    call,         \* a request that carries a name: its endpoint and values
    effect,       \* what the handler of that request did with it
    memory_requests, \* the memory requests of the containers of the cluster
    memory_total, \* get_total_memory_requests: its result
    total_memory, \* get_cluster_resources: what get_cluster_allocatable_memory gives
    used_memory,  \* get_cluster_resources: what get_total_memory_requests gives
    resources,    \* get_cluster_resources: the response
    http,         \* a request that passes the middleware: its method and path
    cache_control,\* the Cache-Control header of the response to it
    pod_list,     \* the pod lines of a deployment in the output of list-versions.sh
    listing_mode, \* the mode of that deployment in the output
    current_deployment \* parse_versions_output: the phase and status of its entry

vars == <<cache, cache_file, now, feed, published, last, pods, is_queue_mode,
          result, stage, ready_lags, phases, pc, watch, sent, clock, last_heartbeat,
          phase_info, namespace_pods, pending, changes, quiet, ns, rm_pc, polls,
          invoked, checked, seen, dn_ret, responses, request, tool, reply,
          call, effect, memory_requests, memory_total, total_memory, used_memory,
          resources, http, cache_control, pod_list, listing_mode, current_deployment>>

cacheVars == <<cache, cache_file, now, feed, published, last>>
phaseVars == <<pods, is_queue_mode, result, stage, ready_lags, phases>>
streamVars == <<pc, watch, sent, clock, last_heartbeat, phase_info, namespace_pods,
                pending, changes, quiet>>
removeVars == <<ns, rm_pc, polls, invoked, checked, seen, dn_ret, responses>>
deployVars == <<request, tool, reply>>
namedVars == <<call, effect>>
memoryVars == <<memory_requests, memory_total>>
clusterVars == <<total_memory, used_memory, resources>>
middlewareVars == <<http, cache_control>>
listingVars == <<pod_list, listing_mode, current_deployment>>
viewVars == <<clusterVars, middlewareVars, listingVars>>
opsVars == <<streamVars, removeVars, deployVars, namedVars, memoryVars, viewVars>>

(***************************************************************************)
(* Bounds of the model.                                                    *)
(***************************************************************************)
MaxVer == 5        \* releases ever published upstream
MaxTime == 6       \* hours the clock runs
PageSize == 4      \* releases per feed page (per_page)
MaxChurn == 1      \* releases that are drafts, carry a non-version tag, or were deleted
MaxPods == 2       \* pods of an arbitrary snapshot
MaxWorkers == 3    \* worker pods of a simulated queue-mode startup
MaxChanges == 1    \* pod changes of a namespace while its events are streamed
MaxRequests == 2   \* DELETE requests for one namespace
MaxTokens == 2     \* pieces of text in an output of the packaging script
MaxChars == 2      \* characters of a name given to an endpoint
MaxContainers == 2 \* containers whose memory requests are summed
MaxCalls == 2      \* calls of calculate_phase on one snapshot
MaxWebhooks == 2   \* webhook pods of a queue-mode deployment
MaxLines == 2      \* pod lines of a deployment in the output of list-versions.sh

(***************************************************************************)
(* available_versions.py                                                   *)
(***************************************************************************)
CACHE_TTL_HOURS == 6

\* Python's None for a version string and for a datetime.
NoVersion == 0
NoTime == -1
\* "no next link" of a page
NoUrl == 0

EmptyCache == [versions |-> <<>>, last_check |-> NoTime, newest |-> NoVersion]

\* JSON null, and the ISO text of a datetime: the file holds the check time
\* as text, <<t>> standing for the ISO text of the hour t.
Null == <<>>
isoformat(t) == <<t>>
fromisoformat(text) == text[1]

NoFile == [exists |-> FALSE, versions |-> <<>>, last_check |-> Null,
           newest |-> NoVersion]

\* load_cache_from_file: the module cache after the call
load_cache_from_file(c, f) ==
    IF f.exists
    THEN [versions |-> f.versions,
          last_check |-> IF f.last_check # Null THEN fromisoformat(f.last_check)
                         ELSE NoTime,
          newest |-> f.newest]
    ELSE c

\* save_cache_to_file that leaves the newest version out of the file
save_cache_to_file_without_newest(c, f, writeOk) ==
    IF writeOk
    THEN [exists |-> TRUE, versions |-> c.versions,
          last_check |-> IF c.last_check # NoTime THEN isoformat(c.last_check)
                         ELSE Null,
          newest |-> NoVersion]
    ELSE f

\* save_cache_to_file: the file after the call; a failed write is swallowed
save_cache_to_file(c, f, writeOk) ==
    IF writeOk
    THEN [exists |-> TRUE, versions |-> c.versions,
          last_check |-> IF c.last_check # NoTime THEN isoformat(c.last_check)
                         ELSE Null,
          newest |-> c.newest]
    ELSE f

\* A release tag is a prefix followed by a body; the body is a semantic
\* version numbered ver, or some other text.
Tag(prefix, semver, ver) == [prefix |-> prefix, semver |-> semver, ver |-> ver]

\* extract_version: strip "n8n@" and "v", accept only ^\d+\.\d+\.\d+
extract_version(tag) ==
    IF tag.semver THEN tag.ver ELSE NoVersion

RECURSIVE ExtractAll(_)
\* the loop of fetch_page over response.json(): skip drafts and non-versions
ExtractAll(rs) ==
    IF rs = <<>> THEN <<>>
    ELSE LET r == Head(rs)
             v == extract_version(r.tag_name)
         IN IF r.draft THEN ExtractAll(Tail(rs))
            ELSE IF v # NoVersion THEN <<v>> \o ExtractAll(Tail(rs))
            ELSE ExtractAll(Tail(rs))

Min(a, b) == IF a < b THEN a ELSE b

\* the releases the upstream serves as page `page` of feed f
PageOf(f, page) == SubSeq(f, (page - 1) * PageSize + 1, Min(page * PageSize, Len(f)))

\* a Link header in which no "next" relation is ever found
parse_link_header_without_next(f, page) == NoUrl

\* parse_link_header(...).get("next"): the next page, when there is one
parse_link_header(f, page) == IF page * PageSize < Len(f) THEN page + 1 ELSE NoUrl

\* fetch_page: outcome "ok" is a 200 response, "status" a non-200 response,
\* "raise" a requests exception (unreachable, timeout)
fetch_page(f, page, outcome) ==
    IF outcome = "raise"
    THEN [raised |-> TRUE, versions |-> <<>>, next |-> NoUrl]
    ELSE IF outcome = "status"
    THEN [raised |-> FALSE, versions |-> <<>>, next |-> NoUrl]
    ELSE [raised |-> FALSE, versions |-> ExtractAll(PageOf(f, page)),
          next |-> parse_link_header(f, page)]

\* the outcome of the request for `page` when the upstream fails at page fp
Outcome(page, fp, fk) == IF page = fp THEN fk ELSE "ok"

RECURSIVE FetchFrom(_, _, _, _)
\* the while loop of fetch_all_releases, from page `page` on
FetchFrom(f, page, fp, fk) ==
    LET r == fetch_page(f, page, Outcome(page, fp, fk))
    IN IF r.raised THEN [raised |-> TRUE, versions |-> <<>>, requests |-> <<page>>]
       ELSE IF r.next = NoUrl
       THEN [raised |-> FALSE, versions |-> r.versions, requests |-> <<page>>]
       ELSE LET rest == FetchFrom(f, r.next, fp, fk)
            IN [raised |-> rest.raised,
                versions |-> IF rest.raised THEN <<>> ELSE r.versions \o rest.versions,
                requests |-> <<page>> \o rest.requests]

fetch_all_releases(f, fp, fk) == FetchFrom(f, 1, fp, fk)

RECURSIVE UntilKnown_skips(_, _)
\* the for loop of fetch_new_releases with `continue` in the place of `break`
UntilKnown_skips(vs, known_newest) ==
    IF vs = <<>> THEN <<>>
    ELSE IF Head(vs) = known_newest THEN UntilKnown_skips(Tail(vs), known_newest)
    ELSE <<Head(vs)>> \o UntilKnown_skips(Tail(vs), known_newest)

RECURSIVE UntilKnown(_, _)
\* the for loop of fetch_new_releases: the entries before the first known_newest
UntilKnown(vs, known_newest) ==
    IF vs = <<>> THEN <<>>
    ELSE IF Head(vs) = known_newest THEN <<>>
    ELSE <<Head(vs)>> \o UntilKnown(Tail(vs), known_newest)

fetch_new_releases(f, known_newest, fp, fk) ==
    LET r == fetch_page(f, 1, Outcome(1, fp, fk))
    IN [raised |-> r.raised,
        versions |-> IF r.raised THEN <<>> ELSE UntilKnown(r.versions, known_newest),
        requests |-> <<1>>]

\* _cache["last_check"] = now
Checked_forgotten(c, t) == c

Checked(c, t) == [c EXCEPT !.last_check = t]

\* the freshness test of get_available_versions
IsFresh(c, t) == c.last_check # NoTime /\ (t - c.last_check) < CACHE_TTL_HOURS

\* the branch test of get_available_versions
IsWarm(c) == c.versions # <<>> /\ c.newest # NoVersion

\* the incremental branch without the assignment to newest
IncrementalUpdate_keeps_newest(c, new_versions) ==
    IF new_versions # <<>>
    THEN [c EXCEPT !.versions = new_versions \o c.versions]
    ELSE c

\* the incremental branch with the new versions added at the tail
IncrementalUpdate_appends(c, new_versions) ==
    IF new_versions # <<>>
    THEN [c EXCEPT !.versions = c.versions \o new_versions,
                   !.newest = new_versions[1]]
    ELSE c

\* the incremental branch: prepend the new versions
IncrementalUpdate(c, new_versions) ==
    IF new_versions # <<>>
    THEN [c EXCEPT !.versions = new_versions \o c.versions,
                   !.newest = new_versions[1]]
    ELSE c

\* the cold-start branch: take the whole feed
ColdStartUpdate(c, all_versions) ==
    [c EXCEPT !.versions = all_versions,
              !.newest = IF all_versions # <<>> THEN all_versions[1] ELSE NoVersion]

\* get_available_versions, the whole handler: the cache, the file and the
\* record of the call it leaves, for the clock t, the feed f, an upstream that
\* fails at page fp with fk, and a cache-file write that succeeds or not
\* (seq numbers the call in the record).
get_available_versions(c0, f0, t, f, fp, fk, writeOk, seq) ==
    LET c1 == IF c0.versions = <<>> THEN load_cache_from_file(c0, f0) ELSE c0
    IN IF IsFresh(c1, t)
       THEN [cache |-> c1, file |-> f0,
             last |-> [op |-> "fresh", error |-> "none", requests |-> <<>>,
                       added |-> 0, at |-> t, ret |-> c1.versions, seq |-> seq,
                       write |-> "none"]]
       ELSE LET warm == IsWarm(c1)
                got == IF warm THEN fetch_new_releases(f, c1.newest, fp, fk)
                       ELSE fetch_all_releases(f, fp, fk)
                c2 == IF warm THEN IncrementalUpdate(c1, got.versions)
                      ELSE ColdStartUpdate(c1, got.versions)
                c3 == Checked(c2, t)
                c4 == IF got.raised THEN c1 ELSE c3
                err == IF fp \in {got.requests[i] : i \in 1..Len(got.requests)}
                       THEN fk ELSE "none"
            IN [cache |-> c4,
                file |-> IF got.raised THEN f0 ELSE save_cache_to_file(c3, f0, writeOk),
                last |-> [op |-> IF warm THEN "incremental" ELSE "cold",
                          error |-> err, requests |-> got.requests,
                          added |-> Len(c4.versions) - Len(c1.versions),
                          at |-> t, ret |-> c4.versions, seq |-> seq,
                          write |-> IF got.raised THEN "none"
                                    ELSE IF writeOk THEN "ok" ELSE "failed"]]

NoCall == [op |-> "none", error |-> "none", requests |-> <<>>, added |-> 0,
           at |-> 0, ret |-> <<>>, seq |-> 0, write |-> "none"]

(***************************************************************************)
(* deployment_phase.py                                                     *)
(* A pod name is <<prefix, rest>>; a message or reason is a tuple of its   *)
(* text and the values formatted into it; a field a result does not carry  *)
(* is NoText, NoName or NoCount.                                           *)
(***************************************************************************)
NoDetail == "None"
NoText == <<>>
NoName == <<>>
NoCount == -1

Container(name, ready, state_detail, restart_count) ==
    [name |-> name, ready |-> ready, state_detail |-> state_detail,
     restart_count |-> restart_count]

Pod(name, phase, containers) ==
    [name |-> name, phase |-> phase, containers |-> containers]

\* str.startswith on a pod name
startswith(name, prefix) == name[1] = prefix

\* PHASE_LABELS
PHASE_LABELS(phase) ==
    CASE phase = "db-starting" -> "DB starting"
      [] phase = "n8n-starting" -> "n8n starting"
      [] phase = "workers-starting" -> "Workers"
      [] phase = "running" -> "Running"
      [] phase = "failed" -> "Failed"
      [] OTHER -> "Unknown"

\* is_pod_running without the test for an empty container list
is_pod_running_empty_ok(pod) ==
    IF pod.phase # "Running" THEN FALSE
    ELSE \A i \in 1..Len(pod.containers) : pod.containers[i].ready

\* is_pod_running without the readiness test
is_pod_running_phase_only(pod) == pod.phase = "Running"

\* is_pod_running: Running with at least one container and all containers ready
is_pod_running(pod) ==
    IF pod.phase # "Running" THEN FALSE
    ELSE IF pod.containers = <<>> THEN FALSE
    ELSE \A i \in 1..Len(pod.containers) : pod.containers[i].ready

\* the container states is_pod_failed treats as failures
FailedDetails == {"CrashLoopBackOff", "ErrImagePull", "ImagePullBackOff", "Error"}

\* the restart count above which is_pod_failed reports a failure
MaxRestarts == 5

\* is_pod_failed without the restart_count test
is_pod_failed_no_restarts(pod) ==
    IF pod.phase = "Failed" THEN TRUE
    ELSE \E i \in 1..Len(pod.containers) :
            pod.containers[i].state_detail \in FailedDetails

\* is_pod_failed
is_pod_failed(pod) ==
    IF pod.phase = "Failed" THEN TRUE
    ELSE \E i \in 1..Len(pod.containers) :
            \/ pod.containers[i].state_detail \in FailedDetails
            \/ pod.containers[i].restart_count > MaxRestarts

\* get_failure_reason: the first container that has a state_detail
get_failure_reason(pod) ==
    LET withDetail == {i \in 1..Len(pod.containers) :
                          pod.containers[i].state_detail # NoDetail}
    IN IF withDetail = {} THEN <<pod.phase>>
       ELSE LET i == CHOOSE k \in withDetail : \A j \in withDetail : k <= j
            IN <<pod.containers[i].name, pod.containers[i].state_detail>>

\* a list comprehension [p for p in ps if p.name.startswith(prefix)]
WithPrefix(ps, prefix) == SelectSeq(ps, LAMBDA p : startswith(p.name, prefix))

\* _get_pod_progress without its last Running branch: a Running pod always
\* gets the container count
get_pod_progress_never_starting(ps, pod_type) ==
    IF ps = <<>> THEN <<"Waiting for pod...", pod_type>>
    ELSE LET pod == ps[1]
             cs == pod.containers
         IN IF pod.phase = "Pending"
            THEN IF \E i \in 1..Len(cs) : cs[i].state_detail = "ContainerCreating"
                 THEN <<"Creating container...">>
                 ELSE IF \E i \in 1..Len(cs) : cs[i].state_detail = "PodInitializing"
                 THEN <<"Initializing...">>
                 ELSE <<"Pod pending...">>
            ELSE IF pod.phase = "Running"
            THEN <<"Containers: ready", Len(SelectSeq(cs, LAMBDA c : c.ready)), Len(cs)>>
            ELSE <<"Status:", pod.phase>>

\* _get_pod_progress
get_pod_progress(ps, pod_type) ==
    IF ps = <<>> THEN <<"Waiting for pod...", pod_type>>
    ELSE LET pod == ps[1]
             cs == pod.containers
         IN IF pod.phase = "Pending"
            THEN LET hit == {i \in 1..Len(cs) :
                               cs[i].state_detail \in {"ContainerCreating", "PodInitializing"}}
                 IN IF hit = {} THEN <<"Pod pending...">>
                    ELSE LET i == CHOOSE k \in hit : \A j \in hit : k <= j
                         IN IF cs[i].state_detail = "ContainerCreating"
                            THEN <<"Creating container...">>
                            ELSE <<"Initializing...">>
            ELSE IF pod.phase = "Running"
            THEN LET ready == Len(SelectSeq(cs, LAMBDA c : c.ready))
                     total == Len(cs)
                 IN IF ready < total THEN <<"Containers: ready", ready, total>>
                    ELSE <<"Starting...">>
            ELSE <<"Status:", pod.phase>>

PhaseResult(phase, message, failed_pod, reason, pods_ready, pods_total) ==
    [phase |-> phase, label |-> PHASE_LABELS(phase), message |-> message,
     failed_pod |-> failed_pod, reason |-> reason,
     pods_ready |-> pods_ready, pods_total |-> pods_total]

\* the pods of the four roles in the order of the input list
all_pods_in_input_order(ps) ==
    SelectSeq(ps, LAMBDA p : p.name[1] \in {"postgres-", "n8n-main", "n8n-worker",
                                            "n8n-webhook"})

\* the categorised pods calculate_phase checks for failures
all_pods(ps) ==
    WithPrefix(ps, "postgres-") \o WithPrefix(ps, "n8n-main")
        \o WithPrefix(ps, "n8n-worker") \o WithPrefix(ps, "n8n-webhook")

\* workers_running without the test for an empty list of workers
workers_running_no_workers_ok(ps) ==
    LET worker_pods == WithPrefix(ps, "n8n-worker")
    IN \A i \in 1..Len(worker_pods) : is_pod_running(worker_pods[i])

\* the queue-mode test of calculate_phase
workers_running(ps) ==
    LET worker_pods == WithPrefix(ps, "n8n-worker")
    IN worker_pods # <<>> /\ \A i \in 1..Len(worker_pods) : is_pod_running(worker_pods[i])

webhook_running(ps) ==
    LET webhook_pods == WithPrefix(ps, "n8n-webhook")
    IN \E i \in 1..Len(webhook_pods) : is_pod_running(webhook_pods[i])

\* calculate_phase
calculate_phase(ps, queue) ==
    LET postgres_pods == WithPrefix(ps, "postgres-")
        main_pods == WithPrefix(ps, "n8n-main")
        worker_pods == WithPrefix(ps, "n8n-worker")
        failed_pods == SelectSeq(all_pods(ps), is_pod_failed)
        postgres_running == \E i \in 1..Len(postgres_pods) : is_pod_running(postgres_pods[i])
        main_running == \E i \in 1..Len(main_pods) : is_pod_running(main_pods[i])
    IN IF ps = <<>>
       THEN PhaseResult("db-starting", <<"Waiting for pods...">>, NoName, NoText,
                        NoCount, NoCount)
       ELSE IF failed_pods # <<>>
       THEN PhaseResult("failed", NoText, failed_pods[1].name,
                        get_failure_reason(failed_pods[1]), NoCount, NoCount)
       ELSE IF ~postgres_running
       THEN PhaseResult("db-starting", get_pod_progress(postgres_pods, "postgres"),
                        NoName, NoText, NoCount, NoCount)
       ELSE IF ~main_running
       THEN PhaseResult("n8n-starting", get_pod_progress(main_pods, "n8n-main"),
                        NoName, NoText, NoCount, NoCount)
       ELSE IF queue /\ ~(workers_running(ps) /\ webhook_running(ps))
       THEN PhaseResult("workers-starting",
                        <<"Workers: Webhook:", Len(SelectSeq(worker_pods, is_pod_running)),
                          Len(worker_pods),
                          IF webhook_running(ps) THEN "ready" ELSE "starting">>,
                        NoName, NoText, NoCount, NoCount)
       ELSE PhaseResult("running", NoText, NoName, NoText,
                        Len(SelectSeq(all_pods(ps), is_pod_running)), Len(all_pods(ps)))

NoResult == [phase |-> "none"]


(***************************************************************************)
(* The cache, its file, the clock and the upstream feed as a state machine *)
(***************************************************************************)
MaxPages == (MaxVer + PageSize - 1) \div PageSize

IdleStream ==
    /\ pc = "idle"
    /\ watch = "none"
    /\ sent = <<>>
    /\ clock = 0
    /\ last_heartbeat = 0
    /\ phase_info = "none"
    /\ namespace_pods = <<>>
    /\ pending = 0
    /\ changes = 0
    /\ quiet = 0

IdleRemove ==
    /\ ns = "absent"
    /\ rm_pc = "idle"
    /\ polls = 0
    /\ invoked = <<>>
    /\ checked = "none"
    /\ seen = "none"
    /\ dn_ret = "none"
    /\ responses = <<>>

\* no response yet
NoReply == [status |-> 0, success |-> FALSE]

IdleDeploy ==
    /\ request = "none"
    /\ tool = "none"
    /\ reply = NoReply

\* the handler has not run
NoEffect == [handled |-> FALSE, rejected |-> FALSE, invoked |-> <<>>]

IdleNamed ==
    /\ call = [endpoint |-> "none"]
    /\ effect = NoEffect

\* get_total_memory_requests has not run
NoTotal == [done |-> FALSE, raised |-> FALSE, bytes |-> <<>>]

IdleMemory ==
    /\ memory_requests = <<>>
    /\ memory_total = NoTotal

\* get_cluster_resources has not answered
NoResources == [answered |-> FALSE]

IdleCluster ==
    /\ total_memory = [kind |-> "none", mi |-> 0, rest |-> 0]
    /\ used_memory = [kind |-> "raised", mi |-> 0, rest |-> 0]
    /\ resources = NoResources

\* no response has passed the middleware
NoHeaders == [sent |-> FALSE]

IdleMiddleware ==
    /\ http = [method |-> "none", path |-> <<>>]
    /\ cache_control = NoHeaders

\* parse_versions_output has not run
NoDeployment == [phase |-> "none", status |-> "none"]

IdleListing ==
    /\ pod_list = <<>>
    /\ listing_mode = "none"
    /\ current_deployment = NoDeployment

IdleViews == IdleCluster /\ IdleMiddleware /\ IdleListing

IdleOps ==
    IdleStream /\ IdleRemove /\ IdleDeploy /\ IdleNamed /\ IdleMemory /\ IdleViews

IdlePhase ==
    /\ pods = <<>>
    /\ is_queue_mode = FALSE
    /\ result = NoResult
    /\ stage = 0
    /\ ready_lags = FALSE
    /\ phases = <<>>

IdleCache ==
    /\ cache = EmptyCache
    /\ cache_file = NoFile
    /\ now = 0
    /\ feed = <<>>
    /\ published = 0
    /\ last = NoCall

CacheInit ==
    /\ cache = EmptyCache
    /\ cache_file = NoFile
    /\ now = 0
    /\ feed = <<>>
    /\ published = 0
    /\ last = NoCall
    /\ IdlePhase
    /\ IdleOps

\* a request to GET /api/versions/available
GetAvailableVersions ==
    \E fp \in 0..MaxPages, fk \in {"status", "raise"}, writeOk \in BOOLEAN :
        LET r == get_available_versions(cache, cache_file, now, feed, fp, fk, writeOk,
                                        1 - last.seq)
        IN /\ (fp = 0 => fk = "status")
           /\ cache' = r.cache
           /\ cache_file' = r.file
           /\ last' = r.last
           /\ UNCHANGED <<now, feed, published>>
           /\ UNCHANGED <<phaseVars, opsVars>>

\* the process restarts: the module-level _cache is initialised again
Restart ==
    /\ cache' = EmptyCache
    /\ last' = NoCall
    /\ UNCHANGED <<cache_file, now, feed, published>>
    /\ UNCHANGED <<phaseVars, opsVars>>

\* the clock advances, by half the cache lifetime
Tick ==
    /\ now < MaxTime
    /\ now' = now + (CACHE_TTL_HOURS \div 2)
    /\ UNCHANGED <<cache, cache_file, feed, published, last>>
    /\ UNCHANGED <<phaseVars, opsVars>>

\* the releases of feed f that are drafts or carry a non-version tag, plus
\* the releases deleted from it
Churn(f, p) ==
    Cardinality({i \in 1..Len(f) : f[i].draft \/ ~f[i].tag_name.semver}) + (p - Len(f))

\* upstream publishes a release, at the head of the feed
Publish ==
    /\ published < MaxVer
    /\ \E shape \in {"release", "draft", "other"} :
        /\ shape # "release" => Churn(feed, published) < MaxChurn
        /\ feed' = <<[tag_name |-> Tag("n8n@", shape # "other", published + 1),
                      draft |-> (shape = "draft")]>> \o feed
    /\ published' = published + 1
    /\ UNCHANGED <<cache, cache_file, now, last>>
    /\ UNCHANGED <<phaseVars, opsVars>>

\* upstream deletes a release
Unpublish ==
    /\ Churn(feed, published) < MaxChurn
    /\ \E i \in 1..Len(feed) :
        feed' = SubSeq(feed, 1, i - 1) \o SubSeq(feed, i + 1, Len(feed))
    /\ UNCHANGED <<cache, cache_file, now, published, last>>
    /\ UNCHANGED <<phaseVars, opsVars>>

CacheNext ==
    \/ GetAvailableVersions
    \/ Restart
    \/ Tick
    \/ Publish
    \/ Unpublish

SpecCache == CacheInit /\ [][CacheNext]_vars

(***************************************************************************)
(* calculate_phase applied to arbitrary pod snapshots                      *)
(***************************************************************************)
Prefixes == {"postgres-", "n8n-main", "n8n-worker", "n8n-webhook", "other"}

Waiting(detail) == Container("n8n", FALSE, detail, 0)
Ready(restarts) == Container("n8n", TRUE, NoDetail, restarts)
NotReady == Container("sidecar", FALSE, NoDetail, 0)

\* pod phase and container statuses, as get_pods reports them
PodShapes ==
    {<<"Pending", <<>>>>,
     <<"Pending", <<Waiting("ContainerCreating")>>>>,
     <<"Pending", <<Waiting("PodInitializing")>>>>,
     <<"Pending", <<Waiting("ErrImagePull")>>>>,
     <<"Pending", <<Waiting("ImagePullBackOff")>>>>,
     <<"Running", <<>>>>,
     <<"Running", <<Ready(0)>>>>,
     <<"Running", <<Ready(0), NotReady>>>>,
     <<"Running", <<Ready(MaxRestarts)>>>>,
     <<"Running", <<Ready(MaxRestarts + 1)>>>>,
     <<"Running", <<Waiting("CrashLoopBackOff")>>>>,
     <<"Running", <<Waiting("Error")>>>>,
     <<"Failed", <<>>>>,
     <<"Unknown", <<>>>>}

PhaseInit ==
    /\ \E n \in 0..MaxPods :
         \E obs \in [1..n -> Prefixes \X PodShapes] :
            pods = [i \in 1..n |-> Pod(<<obs[i][1], i>>, obs[i][2][1], obs[i][2][2])]
    /\ is_queue_mode \in BOOLEAN
    /\ result = NoResult
    /\ stage = 0
    /\ ready_lags = FALSE
    /\ phases = <<>>
    /\ IdleCache
    /\ IdleOps

\* a request to GET /api/versions/{namespace}/phase
CalculatePhase ==
    /\ result' = calculate_phase(pods, is_queue_mode)
    /\ UNCHANGED <<pods, is_queue_mode, stage, ready_lags, phases>>
    /\ UNCHANGED <<cacheVars, opsVars>>

PhaseNext == CalculatePhase

SpecPhase == PhaseInit /\ [][PhaseNext]_vars

(***************************************************************************)
(* calculate_phase called again and again on one snapshot                  *)
(***************************************************************************)
\* a call of calculate_phase that takes the first pod off the list it is given
call_calculate_phase_consuming(ps, queue) ==
    [ret |-> calculate_phase(ps, queue), pods |-> IF ps = <<>> THEN ps ELSE Tail(ps)]

\* a call of calculate_phase: the value it returns and the list it leaves to
\* its caller (the function only reads the list and the dicts of the pods)
call_calculate_phase(ps, queue) ==
    [ret |-> calculate_phase(ps, queue), pods |-> ps]

\* the snapshot is polled once more; stage counts the calls
PollPhase ==
    /\ stage < MaxCalls
    /\ LET r == call_calculate_phase(pods, is_queue_mode)
       IN /\ result' = r.ret
          /\ pods' = r.pods
    /\ stage' = stage + 1
    /\ UNCHANGED <<is_queue_mode, ready_lags, phases>>
    /\ UNCHANGED <<cacheVars, opsVars>>

PollNext == PollPhase

SpecPoll == PhaseInit /\ [][PollNext]_vars

(***************************************************************************)
(* calculate_phase applied to the snapshots of a deployment with a         *)
(* database pod, a main pod, worker pods and webhook pods                  *)
(***************************************************************************)
\* a ready pod, a pod with a container that is not ready, a pending pod, a
\* Running pod without container statuses, a crash-looping pod
QueueShapes ==
    {<<"Running", <<Ready(0)>>>>,
     <<"Running", <<Ready(0), NotReady>>>>,
     <<"Pending", <<>>>>,
     <<"Running", <<>>>>,
     <<"Running", <<Waiting("CrashLoopBackOff")>>>>}

\* the first two and the first three of them
CoreShapes == {<<"Running", <<Ready(0)>>>>, <<"Running", <<Ready(0), NotReady>>>>}
WebhookShapes == CoreShapes \cup {<<"Pending", <<>>>>}

\* n pods named prefix-1 .. prefix-n of the shapes obs
PodsNamed(prefix, obs) ==
    [i \in 1..Len(obs) |-> Pod(<<prefix, i>>, obs[i][1], obs[i][2])]

QueueInit ==
    /\ \E db \in CoreShapes, main \in CoreShapes,
          workers \in UNION {[1..n -> QueueShapes] : n \in 0..MaxWorkers},
          webhooks \in UNION {[1..n -> WebhookShapes] : n \in 0..MaxWebhooks} :
         pods = PodsNamed("postgres-", <<db>>) \o PodsNamed("n8n-main", <<main>>)
                   \o PodsNamed("n8n-worker", workers)
                   \o PodsNamed("n8n-webhook", webhooks)
    /\ is_queue_mode \in BOOLEAN
    /\ result = NoResult
    /\ stage = 0
    /\ ready_lags = FALSE
    /\ phases = <<>>
    /\ IdleCache
    /\ IdleOps

QueueNext == CalculatePhase

SpecQueue == QueueInit /\ [][QueueNext]_vars

(***************************************************************************)
(* calculate_phase fed the snapshots of a simulated queue-mode startup     *)
(***************************************************************************)
PendingShapes ==
    {<<"Pending", <<>>>>,
     <<"Pending", <<Waiting("ContainerCreating")>>>>,
     <<"Pending", <<Waiting("PodInitializing")>>>>}

\* phase Running, container started and not yet ready
Started(name) == Pod(name, "Running", <<Container("n8n", FALSE, NoDetail, 0)>>)

\* phase Running, every container ready
ReadyRunning(name) == Pod(name, "Running", <<Ready(0)>>)

\* the pod of a "-running" snapshot
NowRunning(name, lag) == IF lag THEN Started(name) ELSE ReadyRunning(name)

StartupInit ==
    /\ pods = <<>>
    /\ is_queue_mode = TRUE
    /\ result = NoResult
    /\ stage = 0
    /\ ready_lags \in BOOLEAN
    /\ phases = <<>>
    /\ IdleCache
    /\ IdleOps

\* the next snapshot is polled: its phase is computed and reported
Feed(next) ==
    /\ pods' = next
    /\ result' = calculate_phase(next, is_queue_mode)
    /\ phases' = Append(phases, result'.phase)
    /\ stage' = stage + 1
    /\ UNCHANGED <<is_queue_mode, ready_lags>>
    /\ UNCHANGED <<cacheVars, opsVars>>

DbPending ==
    /\ stage = 0
    /\ \E s \in PendingShapes : Feed(<<Pod(<<"postgres-", 0>>, s[1], s[2])>>)

DbRunning ==
    /\ stage = 1
    /\ Feed(<<NowRunning(pods[1].name, ready_lags)>>)

MainPending ==
    /\ stage = 2
    /\ \E s \in PendingShapes :
         Feed(<<ReadyRunning(pods[1].name), Pod(<<"n8n-main", 0>>, s[1], s[2])>>)

MainRunning ==
    /\ stage = 3
    /\ Feed(<<pods[1], NowRunning(pods[2].name, ready_lags)>>)

WorkersPending ==
    /\ stage = 4
    /\ \E n \in 1..MaxWorkers, s \in PendingShapes, w \in PendingShapes,
          webhookFirst \in BOOLEAN :
         LET workers == [i \in 1..n |-> Pod(<<"n8n-worker", i>>, s[1], s[2])]
             webhook == <<Pod(<<"n8n-webhook", 0>>, w[1], w[2])>>
         IN Feed(<<pods[1], ReadyRunning(pods[2].name)>>
                 \o (IF webhookFirst THEN webhook \o workers ELSE workers \o webhook))

WorkersRunning ==
    /\ stage = 5
    /\ Feed([i \in 1..Len(pods) |-> ReadyRunning(pods[i].name)])

StartupNext ==
    \/ DbPending
    \/ DbRunning
    \/ MainPending
    \/ MainRunning
    \/ WorkersPending
    \/ WorkersRunning

SpecStartup == StartupInit /\ [][StartupNext]_vars

(***************************************************************************)
(* versions.py: stream_deployment_events.event_generator                   *)
(* pc is the yield the generator is suspended at ("waiting": the await of  *)
(* the next watch event); the caller can disconnect at each of them.  Time *)
(* passes while the generator waits for a watch event.                     *)
(***************************************************************************)
heartbeat_interval == 30
timeout_seconds == 300
\* the step of the clock
TickSeconds == 30

StreamFrame == UNCHANGED <<cacheVars, phaseVars, removeVars, deployVars, namedVars, memoryVars, viewVars>>

\* the namespaces a stream is opened on: nothing deployed, database pending,
\* database ready, database and main ready, main crash-looping
StreamSnapshots ==
    {<<>>,
     <<Pod(<<"postgres-", 0>>, "Pending", <<>>)>>,
     <<ReadyRunning(<<"postgres-", 0>>)>>,
     <<ReadyRunning(<<"postgres-", 0>>), ReadyRunning(<<"n8n-main", 0>>)>>,
     <<ReadyRunning(<<"postgres-", 0>>),
       Pod(<<"n8n-main", 0>>, "Running", <<Waiting("CrashLoopBackOff")>>)>>}

StreamInit ==
    /\ pc = "start"
    /\ watch = "none"
    /\ sent = <<>>
    /\ clock = 0
    /\ last_heartbeat = 0
    /\ phase_info = "none"
    /\ namespace_pods \in StreamSnapshots
    /\ pending = 0
    /\ changes = 0
    /\ quiet = 0
    /\ IdleCache
    /\ IdlePhase
    /\ IdleRemove
    /\ IdleDeploy
    /\ IdleNamed
    /\ IdleMemory
    /\ IdleViews

\* lines 733-738: the watch object is made, the client fetched, "connected" sent
Connect ==
    /\ pc = "start"
    /\ watch' = "created"
    /\ \E ok \in BOOLEAN :
         IF ok
         THEN pc' = "connected" /\ sent' = Append(sent, <<"connected">>)
         ELSE pc' = "ended" /\ UNCHANGED sent
    /\ UNCHANGED <<clock, last_heartbeat, phase_info, namespace_pods, pending,
                   changes, quiet>>
    /\ StreamFrame

\* lines 752-756: last_heartbeat is taken and the watch subscribed; the
\* subscription first notifies of every pod that exists
OpenWatch ==
    /\ last_heartbeat' = clock
    /\ watch' = "streaming"
    /\ pending' = Len(namespace_pods)
    /\ quiet' = 0
    /\ pc' = "waiting"

\* lines 741-749: the initial phase is computed and sent, or the failure logged
InitialPhase ==
    /\ pc = "connected"
    /\ \E ok \in BOOLEAN :
         IF ok
         THEN /\ phase_info' = calculate_phase(namespace_pods, is_queue_mode).phase
              /\ sent' = Append(sent, <<"phase", phase_info'>>)
              /\ pc' = "initial_phase"
              /\ UNCHANGED <<watch, last_heartbeat, pending, quiet>>
         ELSE /\ OpenWatch
              /\ UNCHANGED <<sent, phase_info>>
    /\ UNCHANGED <<clock, namespace_pods, changes>>
    /\ StreamFrame

\* resumed after the initial phase event
AfterInitialPhase ==
    /\ pc = "initial_phase"
    /\ OpenWatch
    /\ UNCHANGED <<sent, clock, phase_info, namespace_pods, changes>>
    /\ StreamFrame

\* lines 790-794: the heartbeat test that ends an iteration of the watch loop
HeartbeatIfNeeded(log) ==
    IF clock - last_heartbeat > heartbeat_interval
    THEN /\ sent' = Append(log, <<"heartbeat">>)
         /\ quiet' = 0
         /\ pc' = "heartbeat"
    ELSE /\ sent' = log
         /\ quiet' = quiet
         /\ pc' = "waiting"

\* lines 756-770: a watch event arrives; the phase is recomputed and sent, or
\* the failure is logged and the iteration ends
WatchEvent ==
    /\ pc = "waiting"
    /\ pending > 0
    /\ pending' = pending - 1
    /\ \E ok \in BOOLEAN :
         IF ok
         THEN /\ phase_info' = calculate_phase(namespace_pods, is_queue_mode).phase
              /\ sent' = Append(sent, <<"phase", phase_info'>>)
              /\ pc' = "phase"
              /\ UNCHANGED quiet
         ELSE /\ HeartbeatIfNeeded(sent)
              /\ UNCHANGED phase_info
    /\ UNCHANGED <<watch, clock, last_heartbeat, namespace_pods, changes>>
    /\ StreamFrame

\* lines 773-780: resumed after the phase event, the pod event is sent
PodUpdate ==
    /\ pc = "phase"
    /\ sent' = Append(sent, <<"pod_update">>)
    /\ pc' = "pod_update"
    /\ UNCHANGED <<watch, clock, last_heartbeat, phase_info, namespace_pods, pending,
                   changes, quiet>>
    /\ StreamFrame

\* lines 783-794: resumed after the pod event; a terminal phase sends
\* "complete", any other ends the iteration
AfterPodUpdate ==
    /\ pc = "pod_update"
    /\ IF phase_info \in {"running", "failed"}
       THEN /\ sent' = Append(sent, <<"complete", phase_info>>)
            /\ pc' = "complete"
            /\ UNCHANGED quiet
       ELSE HeartbeatIfNeeded(sent)
    /\ UNCHANGED <<watch, clock, last_heartbeat, phase_info, namespace_pods, pending,
                   changes>>
    /\ StreamFrame

\* line 785 and the finally of 801-802: break, the watch is closed
Complete ==
    /\ pc = "complete"
    /\ watch' = "closed"
    /\ pc' = "ended"
    /\ UNCHANGED <<sent, clock, last_heartbeat, phase_info, namespace_pods, pending,
                   changes, quiet>>
    /\ StreamFrame

\* line 794: resumed after the heartbeat
AfterHeartbeat ==
    /\ pc = "heartbeat"
    /\ last_heartbeat' = clock
    /\ pc' = "waiting"
    /\ UNCHANGED <<watch, sent, clock, phase_info, namespace_pods, pending, changes,
                   quiet>>
    /\ StreamFrame

\* the watch ends after timeout_seconds: the loop ends, the watch is closed
WatchTimeout ==
    /\ pc = "waiting"
    /\ pending = 0
    /\ clock >= timeout_seconds
    /\ watch' = "closed"
    /\ pc' = "ended"
    /\ UNCHANGED <<sent, clock, last_heartbeat, phase_info, namespace_pods, pending,
                   changes, quiet>>
    /\ StreamFrame

\* lines 798-800: the watch raises, an "error" event is sent
WatchError ==
    /\ pc = "waiting"
    /\ sent' = Append(sent, <<"error">>)
    /\ pc' = "error"
    /\ UNCHANGED <<watch, clock, last_heartbeat, phase_info, namespace_pods, pending,
                   changes, quiet>>
    /\ StreamFrame

\* resumed after the error event: the finally closes the watch
AfterError ==
    /\ pc = "error"
    /\ watch' = "closed"
    /\ pc' = "ended"
    /\ UNCHANGED <<sent, clock, last_heartbeat, phase_info, namespace_pods, pending,
                   changes, quiet>>
    /\ StreamFrame

\* the yields and awaits of the try statement of lines 755-802
InsideTry == {"waiting", "phase", "pod_update", "complete", "heartbeat", "error"}

\* the caller disconnects: the generator is cancelled or closed where it is
\* suspended; the finally of line 801 runs when that is inside its try
Disconnect ==
    /\ pc \in {"connected", "initial_phase"} \cup InsideTry
    /\ watch' = IF pc \in InsideTry THEN "closed" ELSE watch
    /\ pc' = "cancelled"
    /\ UNCHANGED <<sent, clock, last_heartbeat, phase_info, namespace_pods, pending,
                   changes, quiet>>
    /\ StreamFrame

\* time passes while the generator waits and no notification arrives
StreamTick ==
    /\ pc = "waiting"
    /\ pending = 0
    /\ clock < timeout_seconds
    /\ clock' = clock + TickSeconds
    /\ quiet' = quiet + TickSeconds
    /\ UNCHANGED <<pc, watch, sent, last_heartbeat, phase_info, namespace_pods,
                   pending, changes>>
    /\ StreamFrame

\* a pod of the namespace changes; a subscribed watch is notified
PodChange ==
    /\ pc \notin {"ended", "cancelled"}
    /\ changes < MaxChanges
    /\ changes' = changes + 1
    /\ \E next \in StreamSnapshots \ {namespace_pods} : namespace_pods' = next
    /\ IF watch = "streaming"
       THEN pending' = pending + 1 /\ quiet' = 0
       ELSE UNCHANGED <<pending, quiet>>
    /\ UNCHANGED <<pc, watch, sent, clock, last_heartbeat, phase_info>>
    /\ StreamFrame

GeneratorStep ==
    \/ Connect
    \/ InitialPhase
    \/ AfterInitialPhase
    \/ WatchEvent
    \/ PodUpdate
    \/ AfterPodUpdate
    \/ Complete
    \/ AfterHeartbeat
    \/ WatchTimeout
    \/ AfterError

StreamNext ==
    \/ GeneratorStep
    \/ WatchError
    \/ Disconnect
    \/ StreamTick
    \/ PodChange

SpecStream == StreamInit /\ [][StreamNext]_vars

\* the generator runs when it can and time passes
FairSpecStream == SpecStream /\ WF_vars(GeneratorStep) /\ WF_vars(StreamTick)

(***************************************************************************)
(* versions.py: remove_version, and k8s.py: delete_namespace               *)
(* Each cluster call and the uninstall is a step of its own; between them  *)
(* the namespace can be deleted by someone else and a terminating          *)
(* namespace can disappear.                                                *)
(***************************************************************************)
\* the timeout remove_version passes to delete_namespace
timeout == 60

RemoveFrame == UNCHANGED <<cacheVars, phaseVars, streamVars, deployVars, namedVars, memoryVars, viewVars>>

Response(status, detail) == [status |-> status, detail |-> detail]

\* the request ends with a response
Respond(r) ==
    /\ responses' = Append(responses, r)
    /\ rm_pc' = "idle"

\* what a cluster call about the namespace sees: the namespace object exists
\* while it is active or terminating; the call can fail
Observations == IF ns = "absent" THEN {"absent", "error"} ELSE {"present", "error"}

\* remove_version, lines 575-576, on what namespace_exists saw
existence_check_skipped(saw) == "proceed"

existence_check(saw) ==
    IF saw = "error" THEN "500" ELSE IF saw = "absent" THEN "404" ELSE "proceed"

\* delete_namespace, lines 105-109, after poll number n saw the namespace
poll_result_gives_up_quietly(saw, n) ==
    IF saw = "error" THEN "500"
    ELSE IF saw = "absent" THEN "True"
    ELSE IF n < timeout THEN "sleep" ELSE "True"

poll_result(saw, n) ==
    IF saw = "error" THEN "500"
    ELSE IF saw = "absent" THEN "True"
    ELSE IF n < timeout THEN "sleep" ELSE "504"

RemoveInit ==
    /\ ns \in {"active", "terminating", "absent"}
    /\ rm_pc = "idle"
    /\ polls = 0
    /\ invoked = <<>>
    /\ checked = "none"
    /\ seen = "none"
    /\ dn_ret = "none"
    /\ responses = <<>>
    /\ IdleCache
    /\ IdlePhase
    /\ IdleStream
    /\ IdleDeploy
    /\ IdleNamed
    /\ IdleMemory
    /\ IdleViews

\* DELETE /api/versions/{namespace} arrives: lines 572-576
ExistenceCheck ==
    /\ rm_pc = "idle"
    /\ Len(responses) < MaxRequests
    /\ invoked' = <<>>
    /\ polls' = 0
    /\ seen' = "none"
    /\ dn_ret' = "none"
    /\ \E saw \in Observations :
         /\ checked' = saw
         /\ CASE existence_check(saw) = "500" ->
                   Respond(Response(500, "Kubernetes error"))
              [] existence_check(saw) = "404" ->
                   Respond(Response(404, "Namespace not found"))
              [] OTHER -> rm_pc' = "uninstall" /\ UNCHANGED responses
    /\ UNCHANGED ns
    /\ RemoveFrame

\* lines 580-587 and 599-602: helm uninstall ends (any exit code), times out
\* or cannot be run
HelmUninstall ==
    /\ rm_pc = "uninstall"
    /\ invoked' = Append(invoked, "uninstall")
    /\ \E outcome \in {"exit", "timeout", "oserror"} :
         CASE outcome = "timeout" -> Respond(Response(504, "Helm uninstall timed out"))
           [] outcome = "oserror" -> Respond(Response(500, "str(e)"))
           [] OTHER -> rm_pc' = "delete" /\ UNCHANGED responses
    /\ UNCHANGED <<ns, polls, checked, seen, dn_ret>>
    /\ RemoveFrame

\* k8s.py lines 94-102 (and versions.py 590-598): the delete request
DeleteRequest ==
    /\ rm_pc = "delete"
    /\ invoked' = Append(invoked, "delete")
    /\ \E saw \in Observations \cup {"conflict"} :
         /\ seen' = saw
         /\ CASE saw = "absent" ->
                   /\ dn_ret' = "False"
                   /\ Respond(Response(200, "removed"))
                   /\ UNCHANGED ns
              [] saw = "error" ->
                   /\ dn_ret' = "500"
                   /\ Respond(Response(500, "Kubernetes error"))
                   /\ UNCHANGED ns
              [] saw = "conflict" ->
                   /\ dn_ret' = "409"
                   /\ Respond(Response(409, "conflict"))
                   /\ UNCHANGED ns
              [] OTHER ->
                   /\ ns' = "terminating"
                   /\ rm_pc' = "poll"
                   /\ UNCHANGED <<dn_ret, responses>>
    /\ UNCHANGED <<polls, checked>>
    /\ RemoveFrame

\* k8s.py lines 105-109: one existence poll of the wait loop
Poll ==
    /\ rm_pc = "poll"
    /\ polls' = polls + 1
    /\ \E saw \in Observations :
         /\ seen' = saw
         /\ CASE poll_result(saw, polls') = "sleep" ->
                   UNCHANGED <<rm_pc, dn_ret, responses>>
              [] poll_result(saw, polls') = "True" ->
                   dn_ret' = "True" /\ Respond(Response(200, "removed"))
              [] poll_result(saw, polls') = "504" ->
                   /\ dn_ret' = "504"
                   /\ Respond(Response(504, "Namespace deletion timed out"))
              [] OTHER ->
                   dn_ret' = "500" /\ Respond(Response(500, "Kubernetes error"))
    /\ UNCHANGED <<ns, invoked, checked>>
    /\ RemoveFrame

\* a terminating namespace is gone
Finalize ==
    /\ ns = "terminating"
    /\ ns' = "absent"
    /\ UNCHANGED <<rm_pc, polls, invoked, checked, seen, dn_ret, responses>>
    /\ RemoveFrame

\* someone else deletes the namespace
ExternalDelete ==
    /\ ns = "active"
    /\ ns' = "terminating"
    /\ UNCHANGED <<rm_pc, polls, invoked, checked, seen, dn_ret, responses>>
    /\ RemoveFrame

RemoveNext ==
    \/ ExistenceCheck
    \/ HelmUninstall
    \/ DeleteRequest
    \/ Poll
    \/ Finalize
    \/ ExternalDelete

SpecRemove == RemoveInit /\ [][RemoveNext]_vars

(***************************************************************************)
(* versions.py: deploy_version                                             *)
(* An output of the packaging script is a sequence of pieces of text; a    *)
(* version is MAJOR.MINOR.PATCH with a pre-release suffix or "" for none.  *)
(***************************************************************************)
Tokens == {" ", "Namespace", "already exists", "ALREADY EXISTS", "failed"}

Outputs == UNION {[1..n -> Tokens] : n \in 0..MaxTokens}

\* str.lower()
lower(text) ==
    [i \in DOMAIN text |->
        CASE text[i] = "Namespace" -> "namespace"
          [] text[i] = "ALREADY EXISTS" -> "already exists"
          [] OTHER -> text[i]]

\* str.strip()
RECURSIVE lstrip(_)
lstrip(text) == IF text # <<>> /\ Head(text) = " " THEN lstrip(Tail(text)) ELSE text

RECURSIVE rstrip(_)
rstrip(text) ==
    IF text # <<>> /\ text[Len(text)] = " "
    THEN rstrip(SubSeq(text, 1, Len(text) - 1)) ELSE text

strip(text) == lstrip(rstrip(text))

\* phrase in text
Contains(text, phrase) == \E i \in DOMAIN text : text[i] = phrase

\* lines 526-528
error_msg(run) ==
    IF strip(run.stderr) # <<>> THEN strip(run.stderr)
    ELSE IF strip(run.stdout) # <<>> THEN strip(run.stdout)
    ELSE <<"Deployment failed with no error message">>

\* line 533: the "namespace already exists" false positive
is_false_positive(msg) ==
    Contains(lower(msg), "already exists") /\ Contains(lower(msg), "namespace")

Version(major, minor, patch, pre) ==
    [major |-> major, minor |-> minor, patch |-> patch, pre |-> pre]

\* version.split('.'): the third part carries the start of a pre-release suffix
split_version(v) == <<<<v.major, "">>, <<v.minor, "">>, <<v.patch, v.pre>>>>

\* int(part) raises ValueError unless the part is a number
is_int(part) == part[2] = ""

\* lines 541-551, or the ValueError of line 550
namespace_and_url(req) ==
    LET version_parts == split_version(req.version)
    IN IF \A i \in 1..3 : is_int(version_parts[i])
       THEN [raised |-> FALSE,
             namespace |-> IF req.name # "" THEN <<req.name>>
                           ELSE <<"n8n-v", req.version.major, req.version.minor,
                                  req.version.patch, req.version.pre>>,
             port |-> 30000 + version_parts[1][1] * 100 + version_parts[2][1] * 10
                            + version_parts[3][1]]
       ELSE [raised |-> TRUE]

Success(namespace, port, output) ==
    [status |-> 200, success |-> TRUE, namespace |-> namespace, port |-> port,
     output |-> output]

\* the HTTPException(500, detail=str(e)) of line 562
Error500(detail) == [status |-> 500, success |-> FALSE, detail |-> detail]

\* deploy_version: the response, for the request and the run of the script
deploy_version(req, run) ==
    IF run.timed_out
    THEN Error500(<<"TimeoutExpired">>)
    ELSE IF run.returncode # 0 /\ ~is_false_positive(error_msg(run))
    THEN Error500(<<"500: ">> \o error_msg(run))
    ELSE LET where == namespace_and_url(req)
         IN IF where.raised
            THEN Error500(<<"invalid literal for int()">>)
            ELSE Success(where.namespace, where.port, run.stdout)

\* requests that pass the validators of DeployRequest
DeployRequests ==
    {[version |-> v, name |-> n] :
        v \in {Version(1, 86, 0, ""), Version(2, 0, 1, ""), Version(1, 86, 0, "-beta")},
        n \in {"", "custom"}}

ToolRuns ==
    {[timed_out |-> FALSE, returncode |-> rc, stdout |-> out, stderr |-> err] :
        rc \in {0, 1}, out \in Outputs, err \in Outputs}
    \cup {[timed_out |-> TRUE, returncode |-> 0, stdout |-> <<>>, stderr |-> <<>>]}

DeployFrame == UNCHANGED <<cacheVars, phaseVars, streamVars, removeVars, namedVars, memoryVars, viewVars>>

DeployInit ==
    /\ request \in DeployRequests
    /\ tool \in ToolRuns
    /\ reply = NoReply
    /\ IdleCache
    /\ IdlePhase
    /\ IdleStream
    /\ IdleRemove
    /\ IdleNamed
    /\ IdleMemory
    /\ IdleViews

\* POST /api/versions
DeployVersion ==
    /\ reply = NoReply
    /\ reply' = deploy_version(request, tool)
    /\ UNCHANGED <<request, tool>>
    /\ DeployFrame

DeployNext == DeployVersion

SpecDeploy == DeployInit /\ [][DeployNext]_vars

(***************************************************************************)
(* snapshots.py and versions.py: what the handlers do with a name they are *)
(* given.  A name is a sequence of characters, "a" standing for a lower    *)
(* case letter or digit and "A" for an upper case letter, followed by an   *)
(* extension (".sql", ".txt" or none).                                     *)
(***************************************************************************)
Chars == {"a", "A", "-", "_", ".", "/"}

Strings == UNION {[1..n -> Chars] : n \in 0..MaxChars}

Name(stem, ext) == [stem |-> stem, ext |-> ext]

Names == {Name(stem, ext) : stem \in Strings, ext \in {"", ".sql", ".txt"}}

\* name.endswith('.sql')
endswith_sql(name) == name.ext = ".sql"

\* '/' in name
has_slash(name) == \E i \in DOMAIN name.stem : name.stem[i] = "/"

\* '..' in name
has_dotdot(name) ==
    \/ \E i \in 1..(Len(name.stem) - 1) : name.stem[i] = "." /\ name.stem[i + 1] = "."
    \/ name.stem # <<>> /\ name.stem[Len(name.stem)] = "." /\ name.ext # ""

\* validation.py: NAMESPACE_PATTERN, on a name without extension
NAMESPACE_PATTERN(text) ==
    /\ text # <<>>
    /\ Len(text) <= 63
    /\ text[1] = "a"
    /\ text[Len(text)] = "a"
    /\ \A i \in DOMAIN text : text[i] \in {"a", "-"}

\* validation.py: validate_namespace raises HTTP 400
validate_namespace(name) == name.ext = "" /\ NAMESPACE_PATTERN(name.stem)

Rejected == [handled |-> TRUE, rejected |-> TRUE, invoked |-> <<>>]
Invoked(command) == [handled |-> TRUE, rejected |-> FALSE, invoked |-> command]

\* snapshots.py: delete_snapshot, up to the script it runs
delete_snapshot(filename) ==
    IF ~endswith_sql(filename) \/ has_slash(filename) \/ has_dotdot(filename)
    THEN Rejected
    ELSE Invoked(<<"delete-snapshot.sh", filename>>)

\* snapshots.py: restore_snapshot, up to the script it runs
restore_snapshot(snapshot) == Invoked(<<"restore-snapshot.sh", snapshot>>)

\* snapshots.py: restore_to_deployment, up to the script it runs
restore_to_deployment(snapshot, namespace) ==
    IF has_slash(namespace) \/ has_dotdot(namespace)
    THEN Rejected
    ELSE Invoked(<<"restore-to-deployment.sh", snapshot, namespace>>)

\* versions.py: remove_version, up to its first cluster call
remove_version(namespace) ==
    IF ~validate_namespace(namespace)
    THEN Rejected
    ELSE Invoked(<<"namespace_exists", namespace>>)

NamedFrame == UNCHANGED <<cacheVars, phaseVars, streamVars, removeVars, deployVars,
                         memoryVars, viewVars>>

NamedInit ==
    /\ call \in {[endpoint |-> "delete_snapshot", filename |-> f] : f \in Names}
          \cup {[endpoint |-> "restore_snapshot", snapshot |-> n] : n \in Names}
          \cup {[endpoint |-> "restore_to_deployment", snapshot |-> n,
                 namespace |-> Name(t, "")] : n \in Names, t \in Strings}
          \cup {[endpoint |-> "remove_version", namespace |-> Name(t, "")] :
                   t \in Strings}
    /\ effect = NoEffect
    /\ IdleCache
    /\ IdlePhase
    /\ IdleStream
    /\ IdleRemove
    /\ IdleDeploy
    /\ IdleMemory
    /\ IdleViews

\* the request is handled, up to the first external call made with its values
Handle ==
    /\ ~effect.handled
    /\ effect' =
          CASE call.endpoint = "delete_snapshot" -> delete_snapshot(call.filename)
            [] call.endpoint = "restore_snapshot" -> restore_snapshot(call.snapshot)
            [] call.endpoint = "restore_to_deployment" ->
                  restore_to_deployment(call.snapshot, call.namespace)
            [] OTHER -> remove_version(call.namespace)
    /\ UNCHANGED call
    /\ NamedFrame

NamedNext == Handle

SpecNamed == NamedInit /\ [][NamedNext]_vars

(***************************************************************************)
(* k8s.py: parse_k8s_memory and get_total_memory_requests                  *)
(* A memory string is the text before its unit and the unit; the text is a *)
(* whole number n, the number n.5, some other text, or empty.  A number of *)
(* bytes is written in digits of base 10000, lowest first, so that         *)
(* terabytes can be told apart.                                            *)
(***************************************************************************)
Base == 10000

\* a number below 2^31 as a number of bytes
RECURSIVE Bytes(_)
Bytes(n) == IF n = 0 THEN <<>> ELSE <<n % Base>> \o Bytes(n \div Base)

\* bytes * n + carry
RECURSIVE Times(_, _, _)
Times(bytes, n, carry) ==
    IF bytes = <<>>
    THEN Bytes(carry)
    ELSE <<(Head(bytes) * n + carry) % Base>>
            \o Times(Tail(bytes), n, (Head(bytes) * n + carry) \div Base)

\* a + b + carry
RECURSIVE Plus(_, _, _)
Plus(a, b, carry) ==
    IF a = <<>> /\ b = <<>>
    THEN Bytes(carry)
    ELSE LET x == IF a = <<>> THEN 0 ELSE Head(a)
             y == IF b = <<>> THEN 0 ELSE Head(b)
         IN <<(x + y + carry) % Base>>
               \o Plus(IF a = <<>> THEN a ELSE Tail(a),
                       IF b = <<>> THEN b ELSE Tail(b), (x + y + carry) \div Base)

\* base ** exp
RECURSIVE Power(_, _)
Power(base, exp) == IF exp = 0 THEN Bytes(1) ELSE Times(Power(base, exp - 1), base, 0)

Mem(kind, n, unit) == [kind |-> kind, n |-> n, unit |-> unit]

\* the multipliers dict, in its order
multipliers ==
    <<[suffix |-> "Ki", base |-> 1024, exp |-> 1],
      [suffix |-> "Mi", base |-> 1024, exp |-> 2],
      [suffix |-> "Gi", base |-> 1024, exp |-> 3],
      [suffix |-> "Ti", base |-> 1024, exp |-> 4],
      [suffix |-> "K", base |-> 1000, exp |-> 1],
      [suffix |-> "M", base |-> 1000, exp |-> 2],
      [suffix |-> "G", base |-> 1000, exp |-> 3],
      [suffix |-> "T", base |-> 1000, exp |-> 4]>>

Returned(bytes) == [raised |-> FALSE, bytes |-> bytes]
ValueError == [raised |-> TRUE, bytes |-> <<>>]

\* int(float(text) * mult): float raises on text that is no number
scaled(mem, mult) ==
    CASE mem.kind = "int" -> Returned(Times(Power(mult.base, mult.exp), mem.n, 0))
      [] mem.kind = "half" ->
            Returned(Times(Power(mult.base, mult.exp - 1),
                           (2 * mem.n + 1) * (mult.base \div 2), 0))
      [] OTHER -> ValueError

\* parse_k8s_memory
parse_k8s_memory(mem) ==
    IF mem.kind = "empty" /\ mem.unit = ""
    THEN Returned(Bytes(0))
    ELSE LET known == SelectSeq(multipliers, LAMBDA mult : mem.unit = mult.suffix)
         IN IF known # <<>>
            THEN scaled(mem, known[1])
            ELSE IF mem.kind = "int" /\ mem.unit = ""
                 THEN Returned(Bytes(mem.n))
                 ELSE Returned(Bytes(0))

\* get_total_memory_requests: the sum, or the exception of a parse
RECURSIVE get_total_memory_requests(_)
get_total_memory_requests(mems) ==
    IF mems = <<>>
    THEN [done |-> TRUE, raised |-> FALSE, bytes |-> Bytes(0)]
    ELSE LET first == get_total_memory_requests(SubSeq(mems, 1, Len(mems) - 1))
             parsed == parse_k8s_memory(mems[Len(mems)])
         IN IF first.raised \/ parsed.raised
            THEN [done |-> TRUE, raised |-> TRUE, bytes |-> <<>>]
            ELSE [done |-> TRUE, raised |-> FALSE,
                  bytes |-> Plus(first.bytes, parsed.bytes, 0)]

\* memory strings: 1, 2, 512, 1.5, other text and no text, with each unit,
\* with no unit and with a unit the function does not know
MemoryStrings ==
    {Mem(kind[1], kind[2], unit) :
        kind \in {<<"int", 1>>, <<"int", 2>>, <<"int", 512>>, <<"half", 1>>,
                  <<"junk", 0>>, <<"empty", 0>>},
        unit \in {"", "Ki", "Mi", "Gi", "Ti", "K", "M", "G", "T", "m"}}

MemoryFrame ==
    UNCHANGED <<cacheVars, phaseVars, streamVars, removeVars, deployVars, namedVars, viewVars>>

MemoryInit ==
    /\ memory_requests \in UNION {[1..n -> MemoryStrings] : n \in 0..MaxContainers}
    /\ memory_total = NoTotal
    /\ IdleCache
    /\ IdlePhase
    /\ IdleStream
    /\ IdleRemove
    /\ IdleDeploy
    /\ IdleNamed
    /\ IdleViews

\* the memory requests of the cluster are summed
GetTotalMemoryRequests ==
    /\ ~memory_total.done
    /\ memory_total' = get_total_memory_requests(memory_requests)
    /\ UNCHANGED memory_requests
    /\ MemoryFrame

MemoryNext == GetTotalMemoryRequests

SpecMemory == MemoryInit /\ [][MemoryNext]_vars

(***************************************************************************)
(* cluster.py: get_cluster_resources                                       *)
(* A number of bytes is a whole number mi of Mi (2^20 bytes) and a rest of *)
(* 0 or 1 for none or some bytes short of the next Mi; the result of a     *)
(* cluster query is such a number, None or an exception.                   *)
(***************************************************************************)
QUEUE_MODE_MEMORY == 1792
REGULAR_MODE_MEMORY == 512

Queried(kind, mi, rest) == [kind |-> kind, mi |-> mi, rest |-> rest]

\* bytes // (1024 * 1024)
to_mi(bytes) == bytes.mi

\* int((used_mi / allocatable_mi * 100) if allocatable_mi > 0 else 0): int()
\* cuts the fraction off.  On the values of AllocatableMi and UsedMi the
\* double-precision quotient and product give the same whole part as the
\* exact quotient.
utilization_percent(used_mi, allocatable_mi) ==
    IF allocatable_mi > 0 THEN (used_mi * 100) \div allocatable_mi ELSE 0

\* the can_deploy of a response, with > in the place of >=
can_deploy_above(available_mi) ==
    [queue_mode |-> available_mi > QUEUE_MODE_MEMORY,
     regular_mode |-> available_mi > REGULAR_MODE_MEMORY]

\* the can_deploy of a response
can_deploy(available_mi) ==
    [queue_mode |-> available_mi >= QUEUE_MODE_MEMORY,
     regular_mode |-> available_mi >= REGULAR_MODE_MEMORY]

\* "memory": None
NoMemory == [none |-> TRUE]

\* the response of both failure paths
ErrorResponse(error) ==
    [answered |-> TRUE, error |-> error, memory |-> NoMemory,
     can_deploy |-> [queue_mode |-> FALSE, regular_mode |-> FALSE]]

\* get_cluster_resources: total is what get_cluster_allocatable_memory gives,
\* used what get_total_memory_requests gives, listed whether the namespaces
\* and pods of the deployments can be listed
get_cluster_resources(total, used, listed) ==
    IF total.kind = "raised" THEN ErrorResponse("exception")
    ELSE IF total.kind = "none" THEN ErrorResponse("Failed to query cluster nodes")
    ELSE IF used.kind = "raised" THEN ErrorResponse("exception")
    ELSE LET allocatable_mi == to_mi(total)
             used_mi == to_mi(used)
             available_mi == allocatable_mi - used_mi
         IN IF ~listed THEN ErrorResponse("exception")
            ELSE [answered |-> TRUE, error |-> "none",
                  memory |-> [none |-> FALSE,
                              allocatable_mi |-> allocatable_mi,
                              used_mi |-> used_mi,
                              available_mi |-> available_mi,
                              utilization_percent |->
                                  utilization_percent(used_mi, allocatable_mi)],
                  can_deploy |-> can_deploy(available_mi)]

\* allocatable memory of the first node and memory requested by all pods, in Mi
AllocatableMi == {0, 3, 512, 1792, 4096}
UsedMi == {0, 2, 512, 2304, 2305, 2500, 2731, 3584, 3585, 5000}

ClusterFrame ==
    UNCHANGED <<cacheVars, phaseVars, streamVars, removeVars, deployVars, namedVars,
                memoryVars, middlewareVars, listingVars>>

ClusterInit ==
    /\ total_memory \in {Queried("none", 0, 0), Queried("raised", 0, 0)}
                          \cup {Queried("bytes", a, r) : a \in AllocatableMi, r \in {0, 1}}
    /\ used_memory \in {Queried("raised", 0, 0)}
                          \cup {Queried("bytes", u, r) : u \in UsedMi, r \in {0, 1}}
    /\ resources = NoResources
    /\ IdleCache
    /\ IdlePhase
    /\ IdleStream
    /\ IdleRemove
    /\ IdleDeploy
    /\ IdleNamed
    /\ IdleMemory
    /\ IdleMiddleware
    /\ IdleListing

\* GET /api/cluster/resources
GetClusterResources ==
    /\ \E listed \in BOOLEAN :
          resources' = get_cluster_resources(total_memory, used_memory, listed)
    /\ UNCHANGED <<total_memory, used_memory>>
    /\ ClusterFrame

ClusterNext == GetClusterResources

SpecCluster == ClusterInit /\ [][ClusterNext]_vars

(***************************************************************************)
(* main.py: CacheControlMiddleware                                         *)
(* A path is the sequence of its segments; the paths of the model differ   *)
(* from the patterns of CACHE_RULES by whole segments, so that             *)
(* str.startswith is a prefix of segments.                                 *)
(***************************************************************************)
\* CACHE_RULES, in the order of the dict
CACHE_RULES ==
    <<[pattern |-> <<"api", "available-versions">>, max_age |-> 300],
      [pattern |-> <<"api", "infrastructure", "status">>, max_age |-> 5],
      [pattern |-> <<"api", "cluster", "resources">>, max_age |-> 10],
      [pattern |-> <<"api", "snapshots">>, max_age |-> 10]>>

\* path.startswith(pattern)
path_startswith(path, pattern) ==
    Len(path) >= Len(pattern) /\ SubSeq(path, 1, Len(pattern)) = pattern

\* a header value f"public, max-age={max_age}", and "no-cache"
MaxAge(max_age) == [sent |-> TRUE, set |-> TRUE, value |-> <<"public, max-age=", max_age>>]
NoCache == [sent |-> TRUE, set |-> TRUE, value |-> <<"no-cache">>]
\* the response as call_next returned it: no handler of a modelled route sets
\* a Cache-Control of its own
Untouched == [sent |-> TRUE, set |-> FALSE, value |-> <<>>]

\* dispatch: the Cache-Control header of the response
dispatch(req) ==
    IF req.method = "GET"
    THEN LET hits == {i \in 1..Len(CACHE_RULES) :
                         path_startswith(req.path, CACHE_RULES[i].pattern)}
         IN IF hits # {}
            THEN MaxAge(CACHE_RULES[CHOOSE i \in hits : \A j \in hits : i <= j].max_age)
            ELSE NoCache
    ELSE Untouched

\* the namespaces and snapshot files named in paths
PathNames == {"n8n-v1-86-0", "backup.sql"}

\* the paths of the routes of the routers included by main.py, and the path
\* of the first cache rule
Paths ==
    {<<"api", "health">>,
     <<"api", "versions">>,
     <<"api", "versions", "available">>,
     <<"api", "available-versions">>,
     <<"api", "infrastructure", "status">>,
     <<"api", "cluster", "resources">>,
     <<"api", "snapshots">>,
     <<"api", "snapshots", "named">>,
     <<"api", "snapshots", "restore">>,
     <<"api", "snapshots", "create">>,
     <<"api", "snapshots", "upload">>}
    \cup {<<"api", "versions", n>> : n \in PathNames}
    \cup {<<"api", "versions", n, leaf>> :
             n \in PathNames,
             leaf \in {"status", "events", "pods", "logs", "config", "phase"}}
    \cup {<<"api", "snapshots", n>> : n \in PathNames}

Methods == {"GET", "POST", "DELETE", "PUT"}

MiddlewareFrame ==
    UNCHANGED <<cacheVars, phaseVars, streamVars, removeVars, deployVars, namedVars,
                memoryVars, clusterVars, listingVars>>

MiddlewareInit ==
    /\ http \in [method : Methods, path : Paths]
    /\ cache_control = NoHeaders
    /\ IdleCache
    /\ IdlePhase
    /\ IdleStream
    /\ IdleRemove
    /\ IdleDeploy
    /\ IdleNamed
    /\ IdleMemory
    /\ IdleCluster
    /\ IdleListing

\* the response to the request passes the middleware
Dispatch ==
    /\ cache_control' = dispatch(http)
    /\ UNCHANGED http
    /\ MiddlewareFrame

MiddlewareNext == Dispatch

SpecMiddleware == MiddlewareInit /\ [][MiddlewareNext]_vars

(***************************************************************************)
(* versions.py: infer_phase_from_pods and parse_versions_output            *)
(* A pod line "name - status" is its name, <<role, rest>>, and its status; *)
(* every line of the model has both parts.                                 *)
(***************************************************************************)
PodLine(name, status) == [name |-> name, status |-> status]

\* 'text' in name
name_contains(name, text) == name[1] = text

\* the statuses infer_phase_from_pods treats as failures
FailureStatuses == {"Failed", "CrashLoopBackOff", "Error", "ImagePullBackOff"}

\* infer_phase_from_pods
infer_phase_from_pods(lines, mode) ==
    LET at == DOMAIN lines
        postgres_running ==
            \E i \in at : name_contains(lines[i].name, "postgres")
                             /\ lines[i].status = "Running"
        main_running ==
            \E i \in at : name_contains(lines[i].name, "n8n-main")
                             /\ lines[i].status = "Running"
        workers == {i \in at : name_contains(lines[i].name, "n8n-worker")}
        webhooks == {i \in at : name_contains(lines[i].name, "n8n-webhook")}
        all_workers_running == \A i \in workers : lines[i].status = "Running"
        a_webhook_running == \E i \in webhooks : lines[i].status = "Running"
        has_failure == \E i \in at : lines[i].status \in FailureStatuses
    IN IF lines = <<>> THEN "db-starting"
       ELSE IF ~postgres_running THEN "db-starting"
       ELSE IF ~main_running THEN "n8n-starting"
       ELSE IF /\ mode = "queue"
               /\ workers # {} \/ webhooks # {}
               /\ ~(all_workers_running /\ a_webhook_running)
       THEN "workers-starting"
       ELSE IF has_failure THEN "failed"
       ELSE "running"

\* parse_versions_output: the phase and status of the entry of a deployment
\* with these pod lines and this mode
deployment_entry(lines, mode) ==
    LET phase == infer_phase_from_pods(lines, mode)
    IN [phase |-> phase,
        status |-> IF \E i \in DOMAIN lines : lines[i].status = "Running"
                   THEN "running"
                   ELSE IF phase = "running" THEN "running"
                   ELSE IF phase = "failed" THEN "failed"
                   ELSE "pending"]

LineRoles == {"postgres", "n8n-main", "n8n-worker", "n8n-webhook"}
LineStatuses == {"Running", "Pending"} \cup FailureStatuses

ListingFrame ==
    UNCHANGED <<cacheVars, phaseVars, streamVars, removeVars, deployVars, namedVars,
                memoryVars, clusterVars, middlewareVars>>

ListingInit ==
    /\ \E n \in 0..MaxLines :
         \E obs \in [1..n -> LineRoles \X LineStatuses] :
            pod_list = [i \in 1..n |-> PodLine(<<obs[i][1], i>>, obs[i][2])]
    /\ listing_mode \in {"queue", "regular", ""}
    /\ current_deployment = NoDeployment
    /\ IdleCache
    /\ IdlePhase
    /\ IdleStream
    /\ IdleRemove
    /\ IdleDeploy
    /\ IdleNamed
    /\ IdleMemory
    /\ IdleCluster
    /\ IdleMiddleware

\* GET /api/versions: the entry of the deployment is built
ListVersions ==
    /\ current_deployment' = deployment_entry(pod_list, listing_mode)
    /\ UNCHANGED <<pod_list, listing_mode>>
    /\ ListingFrame

ListingNext == ListVersions

SpecListing == ListingInit /\ [][ListingNext]_vars

(***************************************************************************)
(* Properties of the deployment phase engine                               *)
(***************************************************************************)
\* a pod calculate_phase classifies: database, main, worker or webhook
Tracked(pod) ==
    pod.name[1] \in {"postgres-", "n8n-main", "n8n-worker", "n8n-webhook"}

\* failed, in the words of the specification
Failed(pod) ==
    \/ pod.phase = "Failed"
    \/ \E i \in 1..Len(pod.containers) :
          \/ pod.containers[i].state_detail
                \in {"CrashLoopBackOff", "ErrImagePull", "ImagePullBackOff", "Error"}
          \/ pod.containers[i].restart_count > 5

\* ready-running, in the words of the specification
ReadyRunningPod(pod) ==
    /\ pod.phase = "Running"
    /\ Len(pod.containers) >= 1
    /\ \A i \in 1..Len(pod.containers) : pod.containers[i].ready

PodsOf(prefix) == {i \in 1..Len(pods) : pods[i].name[1] = prefix}

AnyTrackedFailed == \E i \in 1..Len(pods) : Tracked(pods[i]) /\ Failed(pods[i])

DbReady == \E i \in PodsOf("postgres-") : ReadyRunningPod(pods[i])
MainReady == \E i \in PodsOf("n8n-main") : ReadyRunningPod(pods[i])
WorkersReady ==
    /\ PodsOf("n8n-worker") # {}
    /\ \A i \in PodsOf("n8n-worker") : ReadyRunningPod(pods[i])
WebhookReady == \E i \in PodsOf("n8n-webhook") : ReadyRunningPod(pods[i])

\* C1: whenever a tracked pod of the snapshot is failed, calculate_phase
\* returns phase failed, whatever the other pods and the mode flag are.
C1_FailurePrecedence ==
    (result # NoResult /\ AnyTrackedFailed) => result.phase = "failed"

\* a ready-running database pod next to a main pod failed by its restart count
C1_Witness ==
    /\ result # NoResult
    /\ result.phase = "failed"
    /\ Len(pods) = 2
    /\ pods[1].name[1] = "postgres-" /\ ReadyRunningPod(pods[1])
    /\ pods[2].name[1] = "n8n-main" /\ pods[2].phase = "Running"
    /\ pods[2].containers[1].restart_count > 5

\* C7 as claimed: the six snapshots of a queue-mode startup yield db-starting,
\* db-starting, n8n-starting, n8n-starting, workers-starting, running.
C7_ClaimedSequence ==
    stage = 6 =>
        phases = <<"db-starting", "db-starting", "n8n-starting", "n8n-starting",
                   "workers-starting", "running">>

\* the phases of the startup sequence when every "-running" pod is ready-running
ReadySequence ==
    <<"db-starting", "n8n-starting", "n8n-starting", "workers-starting",
      "workers-starting", "running">>

\* the phases of the startup sequence when a "-running" pod is Running and not
\* yet ready, and ready from the next snapshot on
LaggingSequence ==
    <<"db-starting", "db-starting", "n8n-starting", "n8n-starting",
      "workers-starting", "running">>

\* C7, amended: the six snapshots yield db-starting, n8n-starting, n8n-starting,
\* workers-starting, workers-starting, running when each "-running" pod is
\* ready-running, and the claimed sequence only when such a pod becomes ready a
\* snapshot later; no snapshot yields a phase later than the stage whose
\* prerequisite pod is not yet ready-running.
C7_StartupSequence ==
    /\ phases = SubSeq(IF ready_lags THEN LaggingSequence ELSE ReadySequence, 1, stage)
    /\ stage > 0 =>
         /\ ~DbReady => result.phase = "db-starting"
         /\ ~MainReady => result.phase \in {"db-starting", "n8n-starting"}
         /\ ~(WorkersReady /\ WebhookReady) => result.phase # "running"

\* the end of a startup whose "-running" pods are ready-running
C7_Witness ==
    /\ stage = 6
    /\ ~ready_lags
    /\ Len(pods) >= 4
    /\ result.phase = "running"
    /\ phases[2] = "n8n-starting"

\* C8: whenever no tracked pod is failed and no postgres- pod is ready-running,
\* calculate_phase returns db-starting, for the empty snapshot too and whatever
\* the other pods and the mode flag are.
C8_DbStarting ==
    (result # NoResult /\ ~AnyTrackedFailed /\ ~DbReady) => result.phase = "db-starting"

\* a database pod that is Running without containers, next to a ready main pod
C8_Witness ==
    /\ result # NoResult
    /\ result.phase = "db-starting"
    /\ Len(pods) = 2
    /\ pods[1].name[1] = "n8n-main" /\ ReadyRunningPod(pods[1])
    /\ pods[2].name[1] = "postgres-" /\ pods[2].phase = "Running"
    /\ pods[2].containers = <<>>

FailedTracked == {i \in 1..Len(pods) : Tracked(pods[i]) /\ Failed(pods[i])}

\* C25: when several tracked pods are failed, failed_pod is the name of the
\* failed pod that comes first in the input list, whatever the roles.
C25_FirstFailedInInputOrder ==
    (result # NoResult /\ FailedTracked # {}) =>
        result.failed_pod
            = pods[CHOOSE i \in FailedTracked : \A j \in FailedTracked : i <= j].name

\* the place of a pod's role in the list calculate_phase builds
RoleRank(pod) ==
    CASE pod.name[1] = "postgres-" -> 1
      [] pod.name[1] = "n8n-main" -> 2
      [] pod.name[1] = "n8n-worker" -> 3
      [] OTHER -> 4

\* C25, amended: when several tracked pods are failed, failed_pod is the name
\* of the failed pod that comes first in the order database pods, main pods,
\* worker pods, webhook pods, and in input order among the pods of one role.
C25_FirstFailedByRole ==
    (result # NoResult /\ FailedTracked # {}) =>
        LET first == CHOOSE i \in FailedTracked : \A j \in FailedTracked :
                        \/ RoleRank(pods[i]) < RoleRank(pods[j])
                        \/ RoleRank(pods[i]) = RoleRank(pods[j]) /\ i <= j
        IN result.failed_pod = pods[first].name

\* a failed main pod listed before a failed database pod: the database pod
\* is reported
C25_Witness ==
    /\ result # NoResult
    /\ Len(pods) = 2
    /\ pods[1].name[1] = "n8n-main" /\ Failed(pods[1])
    /\ pods[2].name[1] = "postgres-" /\ Failed(pods[2])
    /\ result.failed_pod = pods[2].name

\* C27: in queue mode the phase is running only if a worker pod exists, every
\* worker pod is ready-running and a webhook pod is ready-running; with the
\* database and main pods ready-running, no tracked pod failed and that
\* condition not holding, the phase is workers-starting; without queue mode,
\* worker and webhook pods that are not failed do not keep the phase from
\* being running.
C27_QueueModeRunning ==
    result # NoResult =>
        /\ (is_queue_mode /\ result.phase = "running")
              => (WorkersReady /\ WebhookReady)
        /\ (is_queue_mode /\ DbReady /\ MainReady /\ ~AnyTrackedFailed
               /\ ~(WorkersReady /\ WebhookReady))
              => result.phase = "workers-starting"
        /\ (~is_queue_mode /\ DbReady /\ MainReady /\ ~AnyTrackedFailed)
              => result.phase = "running"

\* queue mode, database and main ready, a webhook ready and no worker pod:
\* workers-starting
C27_Witness ==
    /\ result # NoResult
    /\ is_queue_mode
    /\ DbReady /\ MainReady /\ WebhookReady
    /\ PodsOf("n8n-worker") = {}
    /\ result.phase = "workers-starting"

\* C28: "Starting..." is never produced: the message of a db-starting or
\* n8n-starting result is "Waiting for pods...", "Waiting for ... pod...",
\* "Creating container...", "Initializing...", "Pod pending...",
\* "Containers: r/t ready" with r < t, or "Status: ...".
C28_NeverStarting ==
    (result # NoResult /\ result.phase \in {"db-starting", "n8n-starting"}) =>
        /\ result.message # <<"Starting...">>
        /\ \/ result.message \in {<<"Waiting for pods...">>, <<"Creating container...">>,
                                  <<"Initializing...">>, <<"Pod pending...">>}
           \/ result.message[1] \in {"Waiting for pod...", "Status:"}
           \/ /\ result.message[1] = "Containers: ready"
              /\ result.message[2] < result.message[3]

\* the first pod of the role a starting phase waits for is Running without
\* any container status
FirstPodWithoutContainers ==
    LET role == PodsOf(IF result.phase = "db-starting" THEN "postgres-" ELSE "n8n-main")
    IN /\ role # {}
       /\ LET first == CHOOSE i \in role : \A j \in role : i <= j
          IN pods[first].phase = "Running" /\ pods[first].containers = <<>>

\* C28, amended: the message of a db-starting or n8n-starting result is
\* "Starting..." exactly when the first pod of the role waited for is Running
\* with an empty container list; otherwise it is "Waiting for pods...",
\* "Waiting for ... pod...", "Creating container...", "Initializing...",
\* "Pod pending...", "Containers: r/t ready" with r < t, or "Status: ...".
C28_StartingOnlyWithoutContainers ==
    (result # NoResult /\ result.phase \in {"db-starting", "n8n-starting"}) =>
        IF FirstPodWithoutContainers
        THEN result.message = <<"Starting...">>
        ELSE \/ result.message \in {<<"Waiting for pods...">>, <<"Creating container...">>,
                                     <<"Initializing...">>, <<"Pod pending...">>}
             \/ result.message[1] \in {"Waiting for pod...", "Status:"}
             \/ /\ result.message[1] = "Containers: ready"
                /\ result.message[2] < result.message[3]

\* a ready database pod and a main pod that is Running without containers
C28_Witness ==
    /\ result # NoResult
    /\ result.phase = "n8n-starting"
    /\ result.message = <<"Starting...">>
    /\ DbReady

(***************************************************************************)
(* Properties of the version cache                                         *)
(***************************************************************************)
\* the step is a get_available_versions call
IsCall == last'.op # "none" /\ last'.seq # last.seq

\* the cache a call starts from: the file's, when the memory cache is empty
Loaded ==
    IF cache.versions = <<>> /\ cache_file.exists
    THEN [versions |-> cache_file.versions,
          last_check |-> IF cache_file.last_check = <<>> THEN NoTime
                         ELSE cache_file.last_check[1],
          newest |-> cache_file.newest]
    ELSE cache

\* the versions page 1 of the feed yields
Page1 == ExtractAll(PageOf(feed, 1))

\* the entries of s before the first one equal to x (all of s without one)
BeforeFirst(s, x) ==
    LET at == {i \in 1..Len(s) : s[i] = x}
    IN IF at = {} THEN s
       ELSE SubSeq(s, 1, (CHOOSE i \in at : \A j \in at : i <= j) - 1)

IsSuffix(s, t) ==
    /\ Len(s) <= Len(t)
    /\ \A i \in 1..Len(s) : s[i] = t[Len(t) - Len(s) + i]

\* C2: a stale refresh on a warm cache requests page 1 only, prepends the
\* versions of page 1 that precede the first entry equal to newest, in feed
\* order, and sets newest to the first of them; with newest 1.86.0 (release 2)
\* and page 1 = [1.87.0, 1.86.1, 1.86.0, 1.85.0] (releases 4, 3, 2, 1) the
\* result is [1.87.0, 1.86.1] + old versions and newest 1.87.0.
C2_IncrementalRefresh ==
    [][(IsCall /\ last'.op = "incremental" /\ last'.error = "none") =>
        LET old == Loaded
            new == BeforeFirst(Page1, old.newest)
        IN /\ last'.requests = <<1>>
           /\ cache'.versions = new \o old.versions
           /\ new # <<>> => cache'.newest = new[1]
           /\ (old.newest = 2 /\ Page1 = <<4, 3, 2, 1>>) =>
                 /\ cache'.versions = <<4, 3>> \o old.versions
                 /\ cache'.newest = 4]_vars

\* the refresh of the example: 1.87.0 and 1.86.1 prepended to [1.86.0, 1.85.0],
\* from a feed of more than one page
C2_Witness ==
    /\ last.op = "incremental" /\ last.error = "none"
    /\ last.requests = <<1>>
    /\ last.added = 2
    /\ cache.versions = <<4, 3, 2, 1>>
    /\ cache.newest = 4

\* C3 as claimed: on any upstream error during a refresh the call leaves
\* versions, newest and last_check as they were and returns the versions it had.
C3_ErrorKeepsCache ==
    [][(IsCall /\ last'.error # "none") =>
        /\ cache'.versions = Loaded.versions
        /\ cache'.newest = Loaded.newest
        /\ cache'.last_check = Loaded.last_check
        /\ last'.ret = Loaded.versions]_vars

\* C4 as claimed: the cached versions list never holds an entry twice.
C4_NoDuplicates ==
    \A i, j \in 1..Len(cache.versions) :
        cache.versions[i] = cache.versions[j] => i = j

\* C5: whenever versions is non-empty, newest is its first entry.
C5_NewestIsHead ==
    cache.versions # <<>> => cache.newest = cache.versions[1]

\* an incremental refresh has prepended new versions
C5_Witness ==
    /\ last.op = "incremental"
    /\ last.added > 0
    /\ cache.versions # <<>>
    /\ cache.newest = cache.versions[1]

\* C6: the versions list an incremental refresh starts from is a suffix, in
\* the same order, of the list it leaves.
C6_HeadOnly ==
    [][(IsCall /\ last'.op = "incremental") =>
        IsSuffix(Loaded.versions, cache'.versions)]_vars

\* an incremental refresh has added entries in front of two or more old ones
C6_Witness ==
    /\ last.op = "incremental"
    /\ last.added >= 1
    /\ Len(cache.versions) - last.added >= 2
    /\ last.ret = cache.versions

\* C9 as claimed: a call made less than 6 hours after last_check makes no
\* upstream request, leaves the cache and its file unchanged and returns the
\* cached versions.
C9_FreshCallIsQuiet ==
    [][(IsCall /\ cache.last_check # NoTime /\ now - cache.last_check < 6) =>
        /\ last'.requests = <<>>
        /\ cache' = cache
        /\ cache_file' = cache_file
        /\ last'.ret = cache.versions]_vars

\* C10: a stale incremental refresh whose page 1 starts with the cached newest
\* leaves versions and newest unchanged and sets last_check to the time of the
\* call; the calls of the following 6 hours make no upstream request.
C10_NoNewStillChecks ==
    [][/\ (/\ IsCall /\ last'.op = "incremental" /\ last'.error = "none"
           /\ Page1 # <<>> /\ Page1[1] = Loaded.newest) =>
             /\ cache'.versions = Loaded.versions
             /\ cache'.newest = Loaded.newest
             /\ cache'.last_check = now
       /\ (/\ IsCall /\ last.op = "incremental" /\ last.error = "none"
           /\ last.added = 0 /\ now - last.at < 6) =>
             /\ last'.op = "fresh"
             /\ last'.requests = <<>>]_vars

\* an incremental refresh found page 1 starting with the cached newest
C10_Witness ==
    /\ last.op = "incremental" /\ last.error = "none"
    /\ last.added = 0
    /\ Page1 # <<>> /\ Page1[1] = cache.newest
    /\ last.at >= 6
    /\ cache.last_check = last.at

\* C11: a refresh (incremental or cold start) that met no upstream error and
\* whose file write succeeded leaves a cache file holding the version
\* sequence, the newest version and the check time of the in-memory cache,
\* from which a restarted process loads exactly that cache; when the file write
\* fails, the file stays as it was and the call still refreshes the in-memory
\* cache, stamps it with the time of the call and returns its versions.
C11_RefreshIsPersisted ==
    [][(IsCall /\ last'.op \in {"incremental", "cold"} /\ last'.error = "none") =>
           /\ last'.write \in {"ok", "failed"}
           /\ cache'.last_check = now
           /\ last'.ret = cache'.versions
           /\ last'.write = "ok" =>
                  /\ cache_file'.exists
                  /\ cache_file'.versions = cache'.versions
                  /\ cache_file'.newest = cache'.newest
                  /\ cache_file'.last_check = <<cache'.last_check>>
                  /\ load_cache_from_file(EmptyCache, cache_file') = cache'
           /\ last'.write = "failed" => cache_file' = cache_file]_vars

\* an incremental refresh added releases and wrote them to the file
C11_Witness ==
    /\ last.op = "incremental"
    /\ last.error = "none"
    /\ last.added > 0
    /\ last.write = "ok"
    /\ cache_file.exists
    /\ cache_file.versions = cache.versions
    /\ cache_file.newest = cache.newest

\* the number of pages the upstream serves a feed in: at least the first
NumPages(f) == IF f = <<>> THEN 1 ELSE (Len(f) + PageSize - 1) \div PageSize

RECURSIVE PagesFrom(_, _)
\* the versions extracted from the pages of f from page `page` on, in page order
PagesFrom(f, page) ==
    IF page > NumPages(f) THEN <<>>
    ELSE ExtractAll(PageOf(f, page)) \o PagesFrom(f, page + 1)

\* C29: a cold-start refresh that the upstream answers requests the first
\* page and follows the "next" links until a page has none: every page of the
\* feed is fetched once, in order, versions is the concatenation of the
\* versions extracted from the pages (the complete feed), and newest is its
\* first entry, or unset when it is empty.
C29_ColdStartWalk ==
    [][(IsCall /\ last'.op = "cold" /\ last'.error = "none") =>
          /\ last'.requests = [i \in 1..NumPages(feed) |-> i]
          /\ cache'.versions = PagesFrom(feed, 1)
          /\ cache'.versions = ExtractAll(feed)
          /\ cache'.newest = IF cache'.versions # <<>> THEN cache'.versions[1]
                             ELSE NoVersion
          /\ last'.ret = cache'.versions]_vars

\* a cold start that walked two pages
C29_Witness ==
    /\ last.op = "cold"
    /\ last.error = "none"
    /\ last.requests = <<1, 2>>
    /\ Len(cache.versions) > PageSize
    /\ cache.newest = cache.versions[1]

(***************************************************************************)
(* Properties of the deployment event stream                               *)
(***************************************************************************)
\* the phases that end a deployment
TerminalPhases == {"running", "failed"}

\* event i of the stream is a phase event that carries a terminal phase
TerminalPhaseEvent(i) == sent[i][1] = "phase" /\ sent[i][2] \in TerminalPhases

\* C13 as claimed: no phase or pod_update event is sent after a phase event
\* that carries running or failed, and once such a phase event has been sent
\* the generator does not go back to waiting for pod changes: it sends
\* complete and ends.
C13_TerminalPhaseEndsStream ==
    /\ \A i \in 1..Len(sent) : \A j \in (i + 1)..Len(sent) :
          TerminalPhaseEvent(i) => sent[j][1] \notin {"phase", "pod_update"}
    /\ (\E i \in 1..Len(sent) : TerminalPhaseEvent(i)) =>
          pc \notin {"waiting", "heartbeat"}

\* the stream has a caller and a generator that has not ended
StreamOpen == pc \notin {"idle", "start", "ended", "cancelled"}

\* C14 as claimed: while the stream is open, 30 seconds without a pod-change
\* notification lead to a heartbeat sent to the caller (or the caller leaves,
\* or the stream ends with a complete or error event).
C14_HeartbeatOnSilence ==
    (StreamOpen /\ quiet >= heartbeat_interval)
       ~> \/ pc \in {"heartbeat", "cancelled"}
          \/ pc = "ended" /\ sent # <<>> /\ sent[Len(sent)][1] \in {"complete", "error"}

\* C15 as claimed: however the generator ends (caller disconnect at any of
\* its yields and awaits, terminal phase, watch timeout, watch error), the
\* watch it made has been closed.
C15_WatchClosedOnExit ==
    pc \in {"ended", "cancelled"} => watch = "closed"

(***************************************************************************)
(* Properties of namespace removal                                         *)
(***************************************************************************)
LastResponse == responses[Len(responses)]

\* C16: delete_namespace makes at most timeout existence polls, so its wait
\* loop ends; it returns True only from a poll that found the namespace
\* absent, returns False when the delete request itself found no namespace,
\* and when the last poll still finds the namespace it raises the 504
\* timeout error, which remove_version hands to the caller as it is.
C16_BoundedDeletion ==
    /\ [](/\ polls <= timeout
          /\ rm_pc = "poll" => polls < timeout
          /\ dn_ret = "True" => seen = "absent" /\ polls >= 1
          /\ dn_ret = "False" <=> (invoked = <<"uninstall", "delete">>
                                      /\ polls = 0 /\ seen = "absent")
          /\ (polls = timeout /\ seen = "present") => dn_ret = "504"
          /\ dn_ret = "504" =>
                /\ polls = timeout
                /\ seen = "present"
                /\ rm_pc = "idle"
                /\ LastResponse = Response(504, "Namespace deletion timed out"))
    /\ [][/\ (dn_ret' = "True" /\ dn_ret # "True") => ns = "absent"
          /\ (dn_ret' = "False" /\ dn_ret # "False") => ns = "absent"
          /\ (dn_ret' = "504" /\ dn_ret # "504") => ns # "absent"]_vars

\* the namespace outlived all 60 polls and the caller got the 504
C16_Witness ==
    /\ polls = timeout
    /\ dn_ret = "504"
    /\ ns = "terminating"
    /\ LastResponse.status = 504

\* C17: a DELETE whose existence check finds no namespace answers 404 and
\* invokes neither the uninstall nor the delete; otherwise the uninstall is
\* invoked before the delete, success is answered only after a cluster call
\* found the namespace absent, and the DELETE that follows a successful one
\* finds no namespace: it answers 404 (or the cluster's error, if its
\* existence check fails) and invokes nothing.
C17_RemoveVersion ==
    /\ checked = "absent" =>
          invoked = <<>> /\ rm_pc = "idle" /\ LastResponse.status = 404
    /\ invoked \in {<<>>, <<"uninstall">>, <<"uninstall", "delete">>}
    /\ (rm_pc = "idle" /\ responses # <<>> /\ LastResponse.status = 200) =>
          /\ invoked = <<"uninstall", "delete">>
          /\ seen = "absent"
          /\ ns = "absent"
    /\ \A i \in 1..(Len(responses) - 1) :
          responses[i].status = 200 =>
             /\ responses[i + 1] \in {Response(404, "Namespace not found"),
                                      Response(500, "Kubernetes error")}
             /\ (i + 1 = Len(responses) /\ rm_pc = "idle") =>
                   invoked = <<>> /\ checked \in {"absent", "error"}

\* a DELETE succeeded after polling and the next DELETE was answered 404
C17_Witness ==
    /\ Len(responses) = 2
    /\ responses[1] = Response(200, "removed")
    /\ responses[2].status = 404
    /\ checked = "absent"
    /\ invoked = <<>>

(***************************************************************************)
(* Properties of deploy_version                                            *)
(***************************************************************************)
\* the text has a piece that is the phrase in some letter case
Mentions(text, phrase) ==
    \E i \in DOMAIN text :
        \/ text[i] = phrase
        \/ phrase = "namespace" /\ text[i] = "Namespace"
        \/ phrase = "already exists" /\ text[i] = "ALREADY EXISTS"

\* the error message of a run: its stderr, or its stdout when stderr is blank
Message(run) ==
    IF \E i \in DOMAIN run.stderr : run.stderr[i] # " " THEN run.stderr ELSE run.stdout

\* C18 as claimed: a run of the packaging script that exits non-zero is
\* answered with the success envelope (namespace and url) exactly when its
\* error message contains both "already exists" and "namespace" in any letter
\* case; every other non-zero exit is answered with an error that carries the
\* script's output.
C18_BenignExit ==
    (reply # NoReply /\ ~tool.timed_out /\ tool.returncode # 0) =>
        LET benign == /\ Mentions(Message(tool), "already exists")
                      /\ Mentions(Message(tool), "namespace")
        IN /\ reply.success <=> benign
           /\ benign => reply.status = 200 /\ reply.port >= 30000
           /\ ~benign =>
                 /\ reply.status = 500
                 /\ \A i \in DOMAIN Message(tool) :
                       Message(tool)[i] # " " => Contains(reply.detail, Message(tool)[i])

\* C26: for every request whose version passes validation, with or without
\* a pre-release suffix, a run of the packaging script that exits 0 is
\* answered with the success envelope carrying the namespace and the url,
\* never with an error.
C26_DeployedMeansSuccess ==
    (reply # NoReply /\ ~tool.timed_out /\ tool.returncode = 0) =>
        /\ reply.success
        /\ reply.status = 200
        /\ reply.port >= 30000

(***************************************************************************)
(* Properties of the handling of names                                     *)
(***************************************************************************)
\* ^[A-Za-z0-9][A-Za-z0-9_-]*$
PlainName(text) ==
    /\ text # <<>>
    /\ text[1] \in {"a", "A"}
    /\ \A i \in DOMAIN text : text[i] \in {"a", "A", "-", "_"}

\* a snapshot filename: ^[A-Za-z0-9][A-Za-z0-9_-]*\.sql$
FilenameOk(name) == name.ext = ".sql" /\ PlainName(name.stem)

\* a snapshot given to a restore: a snapshot name or a snapshot filename
SnapshotOk(name) == name.ext \in {"", ".sql"} /\ PlainName(name.stem)

\* a namespace: ^[a-z0-9]([a-z0-9-]{0,61}[a-z0-9])?$
NamespaceOk(name) ==
    /\ name.ext = ""
    /\ name.stem # <<>>
    /\ name.stem[1] = "a"
    /\ name.stem[Len(name.stem)] = "a"
    /\ \A i \in DOMAIN name.stem : name.stem[i] \in {"a", "-"}

\* C19 as claimed: a request whose filename, snapshot or namespace violates
\* its pattern is rejected, and no script or cluster call is made with it.
C19_RejectedBeforeExternalCall ==
    LET violates ==
          CASE call.endpoint = "delete_snapshot" -> ~FilenameOk(call.filename)
            [] call.endpoint = "restore_snapshot" -> ~SnapshotOk(call.snapshot)
            [] call.endpoint = "restore_to_deployment" ->
                  ~SnapshotOk(call.snapshot) \/ ~NamespaceOk(call.namespace)
            [] call.endpoint = "remove_version" -> ~NamespaceOk(call.namespace)
            [] OTHER -> FALSE
    IN (effect.handled /\ violates) => effect.rejected /\ effect.invoked = <<>>

(***************************************************************************)
(* Properties of memory parsing                                            *)
(***************************************************************************)
\* the bytes the claim gives a memory string: number times 1024^k or 1000^k
\* for a number with a known unit, the number itself without a unit, and 0
\* for everything missing or unparseable
ClaimedBytes(mem) ==
    LET k == CASE mem.unit \in {"Ki", "K"} -> 1
               [] mem.unit \in {"Mi", "M"} -> 2
               [] mem.unit \in {"Gi", "G"} -> 3
               [] mem.unit \in {"Ti", "T"} -> 4
               [] OTHER -> 0
        unit == IF mem.unit \in {"Ki", "Mi", "Gi", "Ti"} THEN 1024 ELSE 1000
    IN IF mem.kind \in {"int", "half"} /\ k > 0
       THEN LET whole == Times(Power(unit, k), mem.n, 0)
            IN IF mem.kind = "int" THEN whole
               ELSE Plus(whole, Times(Power(unit, k - 1), unit \div 2, 0), 0)
       ELSE IF mem.kind = "int" /\ mem.unit = "" THEN Bytes(mem.n)
       ELSE Bytes(0)

RECURSIVE ClaimedTotal(_)
ClaimedTotal(mems) ==
    IF mems = <<>> THEN Bytes(0)
    ELSE Plus(ClaimedBytes(Head(mems)), ClaimedTotal(Tail(mems)), 0)

\* C20 as claimed: parse_k8s_memory multiplies the number by 1024^k for
\* Ki/Mi/Gi/Ti and by 1000^k for K/M/G/T (512Mi is 536870912, 1Gi is
\* 1073741824, 2G is 2000000000) and returns 0, raising nothing, for every
\* missing or unparseable string, with or without a known unit; so the total
\* of the memory requests is never an exception and a malformed request
\* counts 0 in it.
C20_MemoryParsing ==
    /\ parse_k8s_memory(Mem("int", 512, "Mi")) = Returned(Bytes(536870912))
    /\ parse_k8s_memory(Mem("int", 1, "Gi")) = Returned(Bytes(1073741824))
    /\ parse_k8s_memory(Mem("int", 2, "G")) = Returned(Bytes(2000000000))
    /\ memory_total.done =>
          /\ ~memory_total.raised
          /\ memory_total.bytes = ClaimedTotal(memory_requests)

(***************************************************************************)
(* Properties of get_cluster_resources                                     *)
(***************************************************************************)
\* the response carries a memory block
HasMemory == resources.answered /\ ~resources.memory.none

\* p is used/allocatable*100 rounded to a nearest integer
IsNearestPercent(p, used_mi, allocatable_mi) ==
    LET diff == used_mi * 100 - p * allocatable_mi
    IN 2 * diff <= allocatable_mi /\ 2 * (0 - diff) <= allocatable_mi

\* C21: utilization_percent is used/allocatable*100 rounded to the nearest
\* integer when allocatable is greater than 0, and 0 when allocatable is 0.
C21_UtilizationRounded ==
    HasMemory =>
        IF resources.memory.allocatable_mi > 0
        THEN IsNearestPercent(resources.memory.utilization_percent,
                              resources.memory.used_mi, resources.memory.allocatable_mi)
        ELSE resources.memory.utilization_percent = 0

\* C22: available = allocatable - used; queue_mode iff available >= 1792 Mi
\* and regular_mode iff available >= 512 Mi, so queue_mode implies
\* regular_mode; 4096 Mi with 2500 Mi used gives 1596 Mi, queue_mode false and
\* regular_mode true; when a cluster query fails both flags are false.
C22_Feasibility ==
    resources.answered =>
        /\ HasMemory =>
             /\ resources.memory.allocatable_mi = to_mi(total_memory)
             /\ resources.memory.used_mi = to_mi(used_memory)
             /\ resources.memory.available_mi
                    = resources.memory.allocatable_mi - resources.memory.used_mi
             /\ resources.can_deploy.queue_mode
                    <=> resources.memory.available_mi >= 1792
             /\ resources.can_deploy.regular_mode
                    <=> resources.memory.available_mi >= 512
             /\ resources.can_deploy.queue_mode => resources.can_deploy.regular_mode
             /\ (resources.memory.allocatable_mi = 4096 /\ resources.memory.used_mi = 2500)
                    => /\ resources.memory.available_mi = 1596
                       /\ ~resources.can_deploy.queue_mode
                       /\ resources.can_deploy.regular_mode
        /\ (total_memory.kind # "bytes" \/ used_memory.kind # "bytes")
             => /\ ~HasMemory
                /\ ~resources.can_deploy.queue_mode
                /\ ~resources.can_deploy.regular_mode
        /\ ~HasMemory
             => ~resources.can_deploy.queue_mode /\ ~resources.can_deploy.regular_mode

\* the example of the specification, answered
C22_Witness ==
    /\ HasMemory
    /\ total_memory = Queried("bytes", 4096, 1)
    /\ used_memory = Queried("bytes", 2500, 0)
    /\ resources.memory.available_mi = 1596
    /\ ~resources.can_deploy.queue_mode
    /\ resources.can_deploy.regular_mode

(***************************************************************************)
(* Properties of the Cache-Control middleware                              *)
(***************************************************************************)
\* the lifetime the specification gives the GET responses of a path: the
\* version list, the infrastructure status, the cluster resources, the
\* snapshot lists; 0 for every other path
ClaimedMaxAge(path) ==
    CASE path = <<"api", "versions", "available">> -> 300
      [] path = <<"api", "infrastructure", "status">> -> 5
      [] path = <<"api", "cluster", "resources">> -> 10
      [] path \in {<<"api", "snapshots">>, <<"api", "snapshots", "named">>} -> 10
      [] OTHER -> 0

\* C23: the GET responses of the available-versions endpoint carry
\* max-age=300, of the infrastructure status 5, of the cluster resources 10,
\* of the snapshot list 10, every other GET response carries no-cache, and
\* the middleware sets no Cache-Control on a response to another method.
C23_CachePolicy ==
    cache_control.sent =>
        IF http.method = "GET"
        THEN IF ClaimedMaxAge(http.path) > 0
             THEN cache_control = MaxAge(ClaimedMaxAge(http.path))
             ELSE cache_control = NoCache
        ELSE ~cache_control.set

(***************************************************************************)
(* Properties of the deployment listing                                    *)
(***************************************************************************)
\* a pod line of the deployment has a failure status
AnyPodCrashed ==
    \E i \in DOMAIN pod_list :
        pod_list[i].status \in {"Failed", "CrashLoopBackOff", "Error", "ImagePullBackOff"}

\* C30: whenever a pod of the deployment has status Failed, CrashLoopBackOff,
\* Error or ImagePullBackOff, the phase of its listing entry is failed (never
\* db-starting, n8n-starting or workers-starting) and its status is failed
\* rather than running or pending.
C30_CrashedIsFailed ==
    (current_deployment # NoDeployment /\ AnyPodCrashed) =>
        /\ current_deployment.phase = "failed"
        /\ current_deployment.status = "failed"

====
